---------------------------- MODULE Spec2Model ----------------------------
(***************************************************************************)
(* Model of the Mark Six bot's two pure components:                        *)
(*   - MarkSixResult (models.py): the pydantic model of one draw result,   *)
(*     with its field constraints, its field validator and its model       *)
(*     validator;                                                          *)
(*   - calculator (agent_setup.py): the dual-mode arithmetic tool, with    *)
(*     the expression mode evaluated by simpleeval's simple_eval.          *)
(* Texts (operator names, expressions) are sequences of one-character      *)
(* strings, so that lower(), strip(), replace() and parsing are computed.  *)
(***************************************************************************)
EXTENDS Integers, Sequences, FiniteSets, TLC

VARIABLES
    dpc,        \* MarkSixResult side: "idle", "held" (an instance exists), "failed"
    dargs,      \* the arguments of the last MarkSixResult(...) call
    instances,  \* the MarkSixResult instances that exist (at most one at a time)
    derrors,    \* the errors of the last ValidationError, in report order
    nAssign,    \* number of attribute assignments made on the held instance
    cpc,        \* calculator side: "idle", "done"
    cargs,      \* the arguments of the last calculator(...) call
    ctree,      \* the expression tree cargs.expression was written from
    cout,       \* the outcome of the last calculator(...) call
    mpc,        \* agentbot: "import", "failed", "main", "polling"
    target,     \* TARGET_CHAT_ID as read from the environment
    history,    \* the file history.csv of the main directory
    srcHistory, \* the file "mark_six_history copy"/history.csv
    mfetch,     \* what the startup refresh of main() met
    jpc,        \* scheduled_marksix_update: where the job stands
    jfetch,     \* what the refresh step of the running job met
    jattempt,   \* the loop variable `attempt` of the running job
    jsent,      \* what the running job has tried to send, in order
    jraised,    \* an exception has left the job callback
    ppc,        \* handle_photo: where the handler stands
    pphoto,     \* file_id of the photo being handled
    ptemp,      \* the local variable temp_path
    tempFiles,  \* the files in ./temp_images
    pfail,      \* the step of handle_photo that raised, if any
    preplies,   \* what handle_photo has tried to reply, in order
    praised,    \* an exception has left handle_photo
    qpc,        \* query_mark_six_history: "idle", "done"
    qargs,      \* the arguments of the last query
    qout        \* the text the last query returned

dvars == <<dpc, dargs, instances, derrors, nAssign>>
cvars == <<cpc, cargs, ctree, cout>>
envvars == <<mpc, target, mfetch>>
filevars == <<history, srcHistory>>
jvars == <<jpc, jfetch, jattempt, jsent, jraised>>
pvars == <<ppc, pphoto, ptemp, tempFiles, pfail, preplies, praised>>
qvars == <<qpc, qargs, qout>>
botvars == <<envvars, filevars, jvars, pvars, qvars>>
vars == <<dvars, cvars, botvars>>

(***************************************************************************)
(* Generic helpers.                                                        *)
(***************************************************************************)
Range(s) == {s[i] : i \in DOMAIN s}

Reverse(s) == [i \in 1..Len(s) |-> s[Len(s) + 1 - i]]

\* rotate left by two places
Rotate(s) == [i \in 1..Len(s) |-> s[((i + 1) % Len(s)) + 1]]

IsAscending(s) == \A i \in 1..(Len(s) - 1) : s[i] < s[i + 1]

IsNonDecreasing(s) == \A i \in 1..(Len(s) - 1) : s[i] <= s[i + 1]

\* number of positions of s holding v
RECURSIVE CountOf(_, _)
CountOf(s, v) ==
    IF s = <<>> THEN 0
    ELSE (IF Head(s) = v THEN 1 ELSE 0) + CountOf(Tail(s), v)

SameBag(s, t) ==
    /\ Len(s) = Len(t)
    /\ \A v \in Range(s) \cup Range(t) : CountOf(s, v) = CountOf(t, v)

(***************************************************************************)
(* MarkSixResult: constants of the schema.                                 *)
(***************************************************************************)
NUM_COUNT == 6
NUM_MIN == 1
NUM_MAX == 49
BONUS_MIN == 1
BONUS_MAX == 49
DRAW_NUMBER_GT == 0

(***************************************************************************)
(* Bounds of the inputs.                                                   *)
(***************************************************************************)
MaxDrawNumber == 1
MaxLen == 7
MaxPerm == 1
MaxAssign == 1

DrawNumberVals == 0..MaxDrawNumber
DrawDates == {"2019-08-06"}
\* both boundaries of 1..49, their outside neighbours, and enough valid
\* values for several valid draws
NumVals == {0, 1, 2, 3, 4, 5, 6, 49, 50}
EdgeVals == {0, 1, 50}
BonusVals == {0, 1, 25, 49, 50}

NonDecreasingLists(n, vals) == {s \in [1..n -> vals] : IsNonDecreasing(s)}

BaseLists ==
    NonDecreasingLists(NUM_COUNT, NumVals)
        \cup UNION {NonDecreasingLists(n, EdgeVals) :
                        n \in ((NUM_COUNT - 1)..MaxLen) \ {NUM_COUNT}}

Permute(s, k) == IF k = 0 THEN s ELSE IF k = 1 THEN Reverse(s) ELSE Rotate(s)

NumberLists == {Permute(b, k) : b \in BaseLists, k \in 0..MaxPerm}

AssignLists == {l \in NumberLists : Range(l) \subseteq EdgeVals}

(***************************************************************************)
(* sorted(v): insertion sort, ascending, duplicates kept.                  *)
(***************************************************************************)
RECURSIVE Insert(_, _)
Insert(s, x) ==
    IF s = <<>> THEN <<x>>
    ELSE IF x <= Head(s) THEN <<x>> \o s
    ELSE <<Head(s)>> \o Insert(Tail(s), x)

RECURSIVE Sorted(_)
Sorted(s) == IF s = <<>> THEN <<>> ELSE Insert(Sorted(Tail(s)), Head(s))

\* sorted(v) leaving the caller's order in place
sorted_Identity(v) == v

sorted(v) == Sorted(v)

(***************************************************************************)
(* Field validation of MarkSixResult, as pydantic runs it: every field is  *)
(* validated, in declaration order, and the errors of all fields are       *)
(* collected into one ValidationError; a field's own checks stop at its    *)
(* first failure; the mode='after' model validator runs only when no       *)
(* field failed.                                                           *)
(***************************************************************************)
Err(rule, loc, msg) == [rule |-> rule, loc |-> loc, msg |-> msg]

\* draw_number: int = Field(gt=0)
DrawNumberErrors(dn) ==
    IF dn > DRAW_NUMBER_GT THEN <<>>
    ELSE <<Err(1, "draw_number", "greater_than")>>

\* validate_numbers without its uniqueness check
validate_numbers_NoUnique(v) ==
    IF ~(\A i \in DOMAIN v : NUM_MIN <= v[i] /\ v[i] <= NUM_MAX)
    THEN [ok |-> FALSE, value |-> <<>>,
          err |-> <<Err(3, "numbers", "Numbers must be between 1 and 49")>>]
    ELSE [ok |-> TRUE, value |-> Sorted(v), err |-> <<>>]

\* @field_validator('numbers'): raises, or returns the value to store
validate_numbers(v) ==
    IF ~(\A i \in DOMAIN v : NUM_MIN <= v[i] /\ v[i] <= NUM_MAX)
    THEN [ok |-> FALSE, value |-> <<>>,
          err |-> <<Err(3, "numbers", "Numbers must be between 1 and 49")>>]
    ELSE IF Cardinality(Range(v)) # NUM_COUNT
    THEN [ok |-> FALSE, value |-> <<>>,
          err |-> <<Err(4, "numbers", "Numbers must be unique")>>]
    ELSE [ok |-> TRUE, value |-> sorted(v), err |-> <<>>]

\* numbers: list[int] = Field(min_length=6, max_length=6), then the validator
NumbersField(v) ==
    IF Len(v) < NUM_COUNT
    THEN [ok |-> FALSE, value |-> <<>>, err |-> <<Err(2, "numbers", "too_short")>>]
    ELSE IF Len(v) > NUM_COUNT
    THEN [ok |-> FALSE, value |-> <<>>, err |-> <<Err(2, "numbers", "too_long")>>]
    ELSE validate_numbers(v)

\* bonus_number: int = Field(ge=1, le=49)
BonusErrors(b) ==
    IF b < BONUS_MIN THEN <<Err(5, "bonus_number", "greater_than_equal")>>
    ELSE IF b > BONUS_MAX THEN <<Err(5, "bonus_number", "less_than_equal")>>
    ELSE <<>>

FieldErrors(a) ==
    DrawNumberErrors(a.draw_number) \o NumbersField(a.numbers).err
        \o BonusErrors(a.bonus_number)

\* @model_validator(mode='after'), on the instance built from the fields
validate_bonus_not_in_numbers(self) ==
    IF self.bonus_number \in Range(self.numbers)
    THEN <<Err(6, "", "Bonus number cannot be one of the main numbers")>>
    ELSE <<>>

FieldsOf(a) ==
    [draw_number |-> a.draw_number, draw_date |-> a.draw_date,
     numbers |-> NumbersField(a.numbers).value, bonus_number |-> a.bonus_number]

\* ConstructErrors stopping at the first failing field
ConstructErrors_FirstOnly(a) ==
    IF FieldErrors(a) # <<>> THEN <<Head(FieldErrors(a))>>
    ELSE validate_bonus_not_in_numbers(FieldsOf(a))

\* MarkSixResult(**a): the errors raised (empty on success)
ConstructErrors(a) ==
    IF FieldErrors(a) # <<>> THEN FieldErrors(a)
    ELSE validate_bonus_not_in_numbers(FieldsOf(a))

(***************************************************************************)
(* Operations on MarkSixResult.                                            *)
(***************************************************************************)
DrawArgs ==
    [draw_number : DrawNumberVals, draw_date : DrawDates,
     numbers : NumberLists, bonus_number : BonusVals]

NoArgs == [draw_number |-> 0, draw_date |-> "", numbers |-> <<>>, bonus_number |-> 0]

\* MarkSixResult(draw_number=..., draw_date=..., numbers=..., bonus_number=...)
Construct ==
    /\ dpc = "idle"
    /\ \E a \in DrawArgs :
        /\ dargs' = a
        /\ derrors' = ConstructErrors(a)
        /\ IF ConstructErrors(a) = <<>>
           THEN dpc' = "held" /\ instances' = {FieldsOf(a)}
           ELSE dpc' = "failed" /\ instances' = {}
    /\ nAssign' = 0
    /\ UNCHANGED <<cvars, botvars>>

\* instance.draw_number = v (BaseModel.__setattr__ with the default
\* configuration: not frozen, validate_assignment off)
AssignDrawNumber ==
    /\ dpc = "held"
    /\ nAssign < MaxAssign
    /\ \E v \in DrawNumberVals :
        instances' = {[i EXCEPT !.draw_number = v] : i \in instances}
    /\ nAssign' = nAssign + 1
    /\ UNCHANGED <<dpc, dargs, derrors>>
    /\ UNCHANGED <<cvars, botvars>>

\* instance.numbers = v
AssignNumbers ==
    /\ dpc = "held"
    /\ nAssign < MaxAssign
    /\ \E v \in AssignLists :
        instances' = {[i EXCEPT !.numbers = v] : i \in instances}
    /\ nAssign' = nAssign + 1
    /\ UNCHANGED <<dpc, dargs, derrors>>
    /\ UNCHANGED <<cvars, botvars>>

\* instance.bonus_number = v
AssignBonus ==
    /\ dpc = "held"
    /\ nAssign < MaxAssign
    /\ \E v \in BonusVals :
        instances' = {[i EXCEPT !.bonus_number = v] : i \in instances}
    /\ nAssign' = nAssign + 1
    /\ UNCHANGED <<dpc, dargs, derrors>>
    /\ UNCHANGED <<cvars, botvars>>

\* the caller drops the instance or the error and is ready for the next call
Discard ==
    /\ dpc \in {"held", "failed"}
    /\ dpc' = "idle"
    /\ dargs' = NoArgs
    /\ instances' = {}
    /\ derrors' = <<>>
    /\ nAssign' = 0
    /\ UNCHANGED <<cvars, botvars>>

DrawInit ==
    /\ dpc = "idle"
    /\ dargs = NoArgs
    /\ instances = {}
    /\ derrors = <<>>
    /\ nAssign = 0

(***************************************************************************)
(* Texts: sequences of one-character strings.  The two non-ASCII glyphs    *)
(* are written by their code points.                                       *)
(***************************************************************************)
MUL_SIGN == "U+00D7"
DIV_SIGN == "U+00F7"

UpperLetters ==
    <<"A", "B", "C", "D", "E", "F", "G", "H", "I", "J", "K", "L", "M",
      "N", "O", "P", "Q", "R", "S", "T", "U", "V", "W", "X", "Y", "Z">>
LowerLetters ==
    <<"a", "b", "c", "d", "e", "f", "g", "h", "i", "j", "k", "l", "m",
      "n", "o", "p", "q", "r", "s", "t", "u", "v", "w", "x", "y", "z">>
Digits == <<"0", "1", "2", "3", "4", "5", "6", "7", "8", "9">>
Whitespace == {" ", "\t", "\n"}

IndexIn(seq, c) == CHOOSE i \in DOMAIN seq : seq[i] = c
IsUpper(c) == c \in Range(UpperLetters)
IsLetter(c) == c \in Range(UpperLetters) \cup Range(LowerLetters) \cup {"_"}
IsDigit(c) == c \in Range(Digits)
DigitValue(c) == IndexIn(Digits, c) - 1

\* str.lower() leaving the text as it is
lower_Nothing(s) == s

\* str.lower()
lower(s) ==
    [i \in DOMAIN s |->
        IF IsUpper(s[i]) THEN LowerLetters[IndexIn(UpperLetters, s[i])] ELSE s[i]]

RECURSIVE lstrip(_)
lstrip(s) ==
    IF s # <<>> /\ Head(s) \in Whitespace THEN lstrip(Tail(s)) ELSE s

RECURSIVE rstrip(_)
rstrip(s) ==
    IF s # <<>> /\ s[Len(s)] \in Whitespace
    THEN rstrip(SubSeq(s, 1, Len(s) - 1)) ELSE s

\* str.strip() leaving the text as it is
strip_Nothing(s) == s

\* str.strip()
strip(s) == rstrip(lstrip(s))

\* str.replace(old, new) for one-character old and new
replace(s, old, new) == [i \in DOMAIN s |-> IF s[i] = old THEN new ELSE s[i]]

(***************************************************************************)
(* Python values.  A number is a type tag and an exact fraction n/d with   *)
(* d > 0 in lowest terms; the rounding of IEEE doubles is not modelled.    *)
(* An exception raised during evaluation is a value whose tag is the       *)
(* exception's name.  Arithmetic whose operands or result leave            *)
(* -ModelMax..ModelMax gives the tag "beyond": such inputs are kept out    *)
(* of the input sets.                                                      *)
(***************************************************************************)
ModelMax == 30000
MAX_POWER == 4000000

Val(t, n, d) == [t |-> t, n |-> n, d |-> d]
PyInt(n) == Val("int", n, 1)
PyNone == Val("none", 0, 1)
PyBool(b) == Val("bool", IF b THEN 1 ELSE 0, 1)
Raised(e) == Val(e, 0, 1)
Beyond == Val("beyond", 0, 1)

NumberTags == {"int", "float", "bool"}
IsNumber(v) == v.t \in NumberTags
IsRaised(v) == v.t \notin NumberTags \cup {"none", "func", "complex", "beyond"}

Abs(n) == IF n < 0 THEN 0 - n ELSE n

RECURSIVE GCD(_, _)
GCD(a, b) == IF b = 0 THEN a ELSE GCD(b, a % b)

TooBig(v) == Abs(v.n) > ModelMax \/ v.d > ModelMax

\* the fraction n/d (d # 0) in lowest terms with a positive denominator
Fraction(t, n, d) ==
    LET g == GCD(Abs(n), Abs(d))
        s == IF d < 0 THEN 0 - 1 ELSE 1
        v == Val(t, s * (n \div g), s * (d \div g))
    IN  IF TooBig(v) THEN Beyond ELSE v

PyFloat(n, d) == Fraction("float", n, d)

\* the type of a + b, a - b, a * b: float when either is, else int
ArithType(a, b) == IF a.t = "float" \/ b.t = "float" THEN "float" ELSE "int"

\* operands that arithmetic accepts, within the model's range
Operable(a, b) == IsNumber(a) /\ IsNumber(b) /\ ~TooBig(a) /\ ~TooBig(b)

\* what a binary operator gives when it cannot compute
Inoperable(a, b) ==
    IF a.t = "beyond" \/ b.t = "beyond" THEN Beyond
    ELSE IF IsRaised(a) THEN a
    ELSE IF IsRaised(b) THEN b
    ELSE IF ~(IsNumber(a) /\ IsNumber(b)) THEN Raised("TypeError")
    ELSE Beyond

PyAdd(a, b) ==
    IF ~Operable(a, b) THEN Inoperable(a, b)
    ELSE Fraction(ArithType(a, b), a.n * b.d + b.n * a.d, a.d * b.d)

PySub(a, b) ==
    IF ~Operable(a, b) THEN Inoperable(a, b)
    ELSE Fraction(ArithType(a, b), a.n * b.d - b.n * a.d, a.d * b.d)

PyMul(a, b) ==
    IF ~Operable(a, b) THEN Inoperable(a, b)
    ELSE Fraction(ArithType(a, b), a.n * b.n, a.d * b.d)

\* a / b: always a float; ZeroDivisionError on a zero divisor
PyTrueDiv(a, b) ==
    IF ~Operable(a, b) THEN Inoperable(a, b)
    ELSE IF b.n = 0 THEN Raised("ZeroDivisionError")
    ELSE Fraction("float", a.n * b.d, a.d * b.n)

\* floor of the fraction n/d, d > 0
Floor(n, d) == n \div d

\* a // b
PyFloorDiv(a, b) ==
    IF ~Operable(a, b) THEN Inoperable(a, b)
    ELSE IF b.n = 0 THEN Raised("ZeroDivisionError")
    ELSE LET q == Fraction("float", a.n * b.d, a.d * b.n)
         IN  IF q.t = "beyond" THEN Beyond
             ELSE Fraction(ArithType(a, b), Floor(q.n, q.d), 1)

\* a % b
PyMod(a, b) ==
    IF ~Operable(a, b) THEN Inoperable(a, b)
    ELSE IF b.n = 0 THEN Raised("ZeroDivisionError")
    ELSE PySub(Val(ArithType(a, b), a.n, a.d), PyMul(b, PyFloorDiv(a, b)))

PyNeg(a) ==
    IF ~IsNumber(a) THEN Inoperable(a, PyInt(0))
    ELSE Val(IF a.t = "bool" THEN "int" ELSE a.t, 0 - a.n, a.d)

PyPos(a) ==
    IF ~IsNumber(a) THEN Inoperable(a, PyInt(0))
    ELSE Val(IF a.t = "bool" THEN "int" ELSE a.t, a.n, a.d)

PyLt(a, b) ==
    IF ~Operable(a, b) THEN Inoperable(a, b)
    ELSE PyBool(a.n * b.d < b.n * a.d)

PyEq(a, b) ==
    IF a.t = "beyond" \/ b.t = "beyond" \/ IsRaised(a) \/ IsRaised(b)
    THEN Inoperable(a, b)
    ELSE IF ~Operable(a, b) THEN PyBool(a = b)
    ELSE PyBool(a.n * b.d = b.n * a.d)

\* v to the power e, e a natural number, by repeated multiplication
\* (beyond the 15th power only 0, 1 and -1 stay within the model's range)
RECURSIVE NatPower(_, _)
NatPower(v, e) ==
    IF e = 0 THEN Val(v.t, 1, 1)
    ELSE IF e = 1 THEN v
    ELSE IF e > 15
    THEN IF v.d = 1 /\ Abs(v.n) <= 1
         THEN Val(v.t, IF e % 2 = 0 THEN v.n * v.n ELSE v.n, 1)
         ELSE Beyond
    ELSE LET r == NatPower(v, e - 1)
         IN  IF r.t = "beyond" THEN Beyond ELSE PyMul(r, v)

\* a ** b as Python computes it
PyPow(a, b) ==
    IF ~Operable(a, b) THEN Inoperable(a, b)
    ELSE IF b.d = 1 /\ b.n >= 0
    THEN NatPower(Val(ArithType(a, b), a.n, a.d), b.n)
    ELSE IF b.d = 1
    THEN IF a.n = 0 THEN Raised("ZeroDivisionError")
         ELSE NatPower(Fraction("float", a.d, a.n), 0 - b.n)
    ELSE IF a.n = 0 THEN (IF b.n > 0 THEN PyFloat(0, 1)
                          ELSE Raised("ZeroDivisionError"))
    ELSE IF a.n = a.d THEN PyFloat(1, 1)
    ELSE IF a.n < 0 THEN Val("complex", 0, 1)
    ELSE Beyond

\* abs(v) > m, for a number v and a natural number m
AbsExceeds(v, m) ==
    \/ Abs(v.n) \div v.d > m
    \/ (Abs(v.n) \div v.d = m /\ Abs(v.n) % v.d > 0)

\* simpleeval.safe_power without its size check
safe_power_Unlimited(a, b) == PyPow(a, b)

\* simpleeval.safe_power: refuses a base or an exponent above MAX_POWER
safe_power(a, b) ==
    IF IsNumber(a) /\ IsNumber(b) /\ (AbsExceeds(a, MAX_POWER) \/ AbsExceeds(b, MAX_POWER))
    THEN Raised("NumberTooHigh")
    ELSE PyPow(a, b)

\* float(x)
float(v) ==
    IF IsRaised(v) \/ v.t = "beyond" THEN v
    ELSE IF IsNumber(v) THEN Val("float", v.n, v.d)
    ELSE Raised("TypeError")

(***************************************************************************)
(* The tokens of a Python expression.  A token is [k, s, v]: its kind      *)
(* ("num", "name", "op", "bad"), its text and, for a number, its value.    *)
(***************************************************************************)
Tok(k, s, v) == [k |-> k, s |-> s, v |-> v]
OpTok(s) == Tok("op", s, PyNone)
BadTok == Tok("bad", "", PyNone)
EndTok == Tok("end", "", PyNone)

\* the length of the longest prefix of s whose characters satisfy the test
RECURSIVE SpanDigits(_)
SpanDigits(s) ==
    IF s # <<>> /\ IsDigit(Head(s)) THEN 1 + SpanDigits(Tail(s)) ELSE 0

RECURSIVE SpanName(_)
SpanName(s) ==
    IF s # <<>> /\ (IsLetter(Head(s)) \/ IsDigit(Head(s)))
    THEN 1 + SpanName(Tail(s)) ELSE 0

\* the natural number written by a sequence of digits
RECURSIVE DigitsValue(_)
DigitsValue(ds) ==
    IF ds = <<>> THEN 0
    ELSE 10 * DigitsValue(SubSeq(ds, 1, Len(ds) - 1)) + DigitValue(ds[Len(ds)])

RECURSIVE TenTo(_)
TenTo(k) == IF k = 0 THEN 1 ELSE 10 * TenTo(k - 1)

Drop(s, k) == SubSeq(s, k + 1, Len(s))

\* the number token at the head of s (which starts with a digit, or with
\* a point followed by a digit), and the number of characters it takes.
\* An integer literal with a leading zero and a non-zero digit is not a
\* Python 3 literal; nor is a number directly followed by a letter.
NumberToken(s) ==
    LET ni == SpanDigits(s)
        hasPoint == Len(s) > ni /\ s[ni + 1] = "."
        nf == IF hasPoint THEN SpanDigits(Drop(s, ni + 1)) ELSE 0
        len == ni + (IF hasPoint THEN 1 + nf ELSE 0)
        ip == SubSeq(s, 1, ni)
        fp == SubSeq(s, ni + 2, ni + 1 + nf)
        glued == Len(s) > len /\ IsLetter(s[len + 1])
        leadingZero == ~hasPoint /\ ni > 1 /\ s[1] = "0" /\ DigitsValue(ip) # 0
    IN  [len |-> len,
         tok |-> IF glued \/ leadingZero THEN BadTok
                 ELSE IF hasPoint
                 THEN Tok("num", SubSeq(s, 1, len),
                          Fraction("float",
                                   DigitsValue(ip) * TenTo(nf) + DigitsValue(fp),
                                   TenTo(nf)))
                 ELSE Tok("num", ip, PyInt(DigitsValue(ip)))]

TwoCharOps == {<<"*", "*">>, <<"/", "/">>, <<"=", "=">>}
TwoCharOp(p) == IF p = <<"*", "*">> THEN "**" ELSE IF p = <<"/", "/">> THEN "//" ELSE "=="
OneCharOps == {"+", "-", "*", "/", "%", "(", ")", "=", "<", ",", "."}

\* the tokens of the text s, in order; a character sequence Python's
\* tokenizer refuses gives a "bad" token
RECURSIVE Tokenize(_)
Tokenize(s) ==
    IF s = <<>> THEN <<>>
    ELSE IF Head(s) \in {" ", "\t"} THEN Tokenize(Tail(s))
    ELSE IF IsDigit(Head(s)) \/ (Head(s) = "." /\ Len(s) > 1 /\ IsDigit(s[2]))
    THEN <<NumberToken(s).tok>> \o Tokenize(Drop(s, NumberToken(s).len))
    ELSE IF IsLetter(Head(s))
    THEN <<Tok("name", SubSeq(s, 1, SpanName(s)), PyNone)>>
            \o Tokenize(Drop(s, SpanName(s)))
    ELSE IF Len(s) > 1 /\ SubSeq(s, 1, 2) \in TwoCharOps
    THEN <<OpTok(TwoCharOp(SubSeq(s, 1, 2)))>> \o Tokenize(Drop(s, 2))
    ELSE IF Head(s) \in OneCharOps
    THEN <<OpTok(Head(s))>> \o Tokenize(Tail(s))
    ELSE <<BadTok>>

(***************************************************************************)
(* The syntax tree of a Python expression statement, for the part of the   *)
(* grammar the inputs use: numbers, names, + - * / // % **, unary + and -, *)
(* not, one comparison, calls, attribute access, parentheses and a single  *)
(* assignment to a name.                                                   *)
(***************************************************************************)
NumNode(v) == [k |-> "num", v |-> v]
NameNode(id) == [k |-> "name", id |-> id]
BinOp(op, l, r) == [k |-> "bin", op |-> op, l |-> l, r |-> r]
UnaryOp(op, e) == [k |-> "un", op |-> op, e |-> e]
Compare(op, l, r) == [k |-> "cmp", op |-> op, l |-> l, r |-> r]
CallNode(f, args) == [k |-> "call", f |-> f, args |-> args]
Attribute(e, attr) == [k |-> "attr", e |-> e, attr |-> attr]
Assign(e) == [k |-> "assign", e |-> e]
TupleNode == [k |-> "tuple"]
NoNode == [k |-> "none"]

Parsed(i, node) == [ok |-> TRUE, i |-> i, node |-> node]
SyntaxFail == [ok |-> FALSE, i |-> 0, node |-> NoNode]

At(ts, i) == IF i <= Len(ts) THEN ts[i] ELSE EndTok
IsOp(t, ops) == t.k = "op" /\ t.s \in ops
T_not == <<"n", "o", "t">>

\* every binary operator below ** at one level
BinaryLevel_Flat(op) == 1

\* the level of a binary operator below **: comparisons, then + and -,
\* then * / // %; a higher level binds tighter
BinaryLevel(op) ==
    IF op \in {"<", "=="} THEN 0
    ELSE IF op \in {"+", "-"} THEN 1
    ELSE 2

BinaryOps == {"<", "==", "+", "-", "*", "/", "//", "%"}

BinaryNode(op, l, r) ==
    IF op \in {"<", "=="} THEN Compare(op, l, r) ELSE BinOp(op, l, r)

\* Python's expression grammar, one rule per mode; x is the rule's extra
\* argument: the lowest operator level to take ("binary", "rest"), with the
\* left operand built so far ("rest", "trailers")
RECURSIVE Parse(_, _, _, _)
Parse(mode, ts, i, x) ==
    LET t == At(ts, i)
    IN  CASE mode = "expr" ->
              \* expr: 'not' expr | comparison
              IF t.k = "name" /\ t.s = T_not
              THEN LET e == Parse("expr", ts, i + 1, 0)
                   IN  IF e.ok THEN Parsed(e.i, UnaryOp("not", e.node))
                       ELSE SyntaxFail
              ELSE Parse("binary", ts, i, [level |-> 0])
          [] mode = "binary" ->
              \* an operand, then the operators of level x.level and above,
              \* left to right
              LET f == Parse("factor", ts, i, 0)
              IN  IF f.ok
                  THEN Parse("rest", ts, f.i, [level |-> x.level, left |-> f.node])
                  ELSE SyntaxFail
          [] mode = "rest" ->
              IF IsOp(t, BinaryOps) /\ BinaryLevel(t.s) >= x.level
              THEN LET r == Parse("binary", ts, i + 1,
                                  [level |-> BinaryLevel(t.s) + 1])
                   IN  IF r.ok
                       THEN Parse("rest", ts, r.i,
                                  [level |-> x.level,
                                   left |-> BinaryNode(t.s, x.left, r.node)])
                       ELSE SyntaxFail
              ELSE Parsed(i, x.left)
          [] mode = "factor" ->
              \* factor: ('+' | '-') factor | power
              IF IsOp(t, {"+", "-"})
              THEN LET f == Parse("factor", ts, i + 1, 0)
                   IN  IF f.ok THEN Parsed(f.i, UnaryOp(t.s, f.node))
                       ELSE SyntaxFail
              ELSE Parse("power", ts, i, 0)
          [] mode = "power" ->
              \* power: primary ['**' factor]  (so ** binds tighter than a
              \* unary minus on its left and associates to the right)
              LET p == Parse("primary", ts, i, 0)
              IN  IF ~p.ok THEN SyntaxFail
                  ELSE IF IsOp(At(ts, p.i), {"**"})
                  THEN LET f == Parse("factor", ts, p.i + 1, 0)
                       IN  IF f.ok THEN Parsed(f.i, BinOp("**", p.node, f.node))
                           ELSE SyntaxFail
                  ELSE p
          [] mode = "primary" ->
              \* primary: atom trailer*
              LET a == Parse("atom", ts, i, 0)
              IN  IF a.ok THEN Parse("trailers", ts, a.i, [left |-> a.node])
                  ELSE SyntaxFail
          [] mode = "trailers" ->
              \* trailer: '(' [args] ')' | '.' NAME
              IF IsOp(t, {"("})
              THEN IF IsOp(At(ts, i + 1), {")"})
                   THEN Parse("trailers", ts, i + 2,
                              [left |-> CallNode(x.left, <<>>)])
                   ELSE LET a == Parse("args", ts, i + 1, 0)
                        IN  IF a.ok
                            THEN Parse("trailers", ts, a.i,
                                       [left |-> CallNode(x.left, a.node)])
                            ELSE SyntaxFail
              ELSE IF IsOp(t, {"."})
              THEN IF At(ts, i + 1).k = "name"
                   THEN Parse("trailers", ts, i + 2,
                              [left |-> Attribute(x.left, At(ts, i + 1).s)])
                   ELSE SyntaxFail
              ELSE Parsed(i, x.left)
          [] mode = "args" ->
              \* args: expr (',' expr)* ')'
              LET e == Parse("expr", ts, i, 0)
              IN  IF ~e.ok THEN SyntaxFail
                  ELSE IF IsOp(At(ts, e.i), {")"})
                  THEN Parsed(e.i + 1, <<e.node>>)
                  ELSE IF IsOp(At(ts, e.i), {","})
                  THEN LET rest == Parse("args", ts, e.i + 1, 0)
                       IN  IF rest.ok
                           THEN Parsed(rest.i, <<e.node>> \o rest.node)
                           ELSE SyntaxFail
                  ELSE SyntaxFail
          [] OTHER ->
              \* atom: NUMBER | NAME | '(' expr ')' | '(' ')'
              IF t.k = "num" THEN Parsed(i + 1, NumNode(t.v))
              ELSE IF t.k = "name" THEN Parsed(i + 1, NameNode(t.s))
              ELSE IF IsOp(t, {"("})
              THEN IF IsOp(At(ts, i + 1), {")"}) THEN Parsed(i + 2, TupleNode)
                   ELSE LET e == Parse("expr", ts, i + 1, 0)
                        IN  IF e.ok /\ IsOp(At(ts, e.i), {")"})
                            THEN Parsed(e.i + 1, e.node) ELSE SyntaxFail
              ELSE SyntaxFail

ParseExpr(ts, i) == Parse("expr", ts, i, 0)

\* ast.parse(text).body[0]: NAME '=' expr, or expr, up to the end of the
\* text; a text without tokens has an empty body
ParseStatement(ts) ==
    IF \E i \in DOMAIN ts : ts[i].k = "bad" THEN SyntaxFail
    ELSE IF ts = <<>> THEN Parsed(1, NoNode)
    ELSE IF ts[1].k = "name" /\ IsOp(At(ts, 2), {"="})
    THEN LET e == ParseExpr(ts, 3)
         IN  IF e.ok /\ e.i = Len(ts) + 1 THEN Parsed(e.i, Assign(e.node))
             ELSE SyntaxFail
    ELSE LET e == ParseExpr(ts, 1)
         IN  IF e.ok /\ e.i = Len(ts) + 1 THEN e ELSE SyntaxFail

(***************************************************************************)
(* simpleeval's evaluation of a syntax tree with its default operators,    *)
(* names and functions.  rnd is the fraction random.random() returns to    *)
(* rand() and randint().                                                   *)
(***************************************************************************)
T_True == <<"T", "r", "u", "e">>
T_False == <<"F", "a", "l", "s", "e">>
T_None == <<"N", "o", "n", "e">>
T_int == <<"i", "n", "t">>
T_float == <<"f", "l", "o", "a", "t">>
T_str == <<"s", "t", "r">>
T_rand == <<"r", "a", "n", "d">>
T_randint == <<"r", "a", "n", "d", "i", "n", "t">>
T_real == <<"r", "e", "a", "l">>
T_imag == <<"i", "m", "a", "g">>

DEFAULT_FUNCTIONS == {T_rand, T_randint, T_int, T_float, T_str}

\* int(v): truncation toward zero
PyIntOf(v) ==
    IF ~IsNumber(v) THEN Inoperable(v, PyInt(0))
    ELSE IF v.n >= 0 THEN PyInt(v.n \div v.d)
    ELSE PyInt(0 - ((0 - v.n) \div v.d))

\* not v
PyNot(v) ==
    IF v.t = "beyond" \/ IsRaised(v) THEN v
    ELSE PyBool(IF IsNumber(v) THEN v.n = 0 ELSE v.t = "none")

\* the operators simpleeval maps the binary operator nodes to
ApplyBinOp(op, a, b) ==
    CASE op = "+" -> PyAdd(a, b)
      [] op = "-" -> PySub(a, b)
      [] op = "*" -> PyMul(a, b)
      [] op = "/" -> PyTrueDiv(a, b)
      [] op = "//" -> PyFloorDiv(a, b)
      [] op = "%" -> PyMod(a, b)
      [] OTHER -> safe_power(a, b)

\* a default function applied to evaluated arguments
ApplyFunction(id, args, rnd) ==
    IF \E i \in DOMAIN args : args[i].t = "beyond" THEN Beyond
    ELSE IF \E i \in DOMAIN args : IsRaised(args[i])
    THEN args[CHOOSE i \in DOMAIN args :
                 IsRaised(args[i]) /\ \A j \in 1..(i - 1) : ~IsRaised(args[j])]
    ELSE IF id = T_int
    THEN IF args = <<>> THEN PyInt(0)
         ELSE IF Len(args) = 1 THEN PyIntOf(args[1]) ELSE Raised("TypeError")
    ELSE IF id = T_float
    THEN IF args = <<>> THEN PyFloat(0, 1)
         ELSE IF Len(args) = 1 THEN float(args[1]) ELSE Raised("TypeError")
    ELSE IF id = T_rand
    THEN IF args = <<>> THEN PyFloat(rnd[1], rnd[2]) ELSE Raised("TypeError")
    ELSE IF id = T_randint
    THEN IF Len(args) = 1
         THEN PyIntOf(PyMul(PyFloat(rnd[1], rnd[2]), args[1]))
         ELSE Raised("TypeError")
    ELSE Beyond

\* the attribute attr of the value v
GetAttribute(v, attr) ==
    IF v.t = "beyond" \/ IsRaised(v) THEN v
    ELSE IF IsNumber(v) /\ attr = T_real THEN PyPos(v)
    ELSE IF IsNumber(v) /\ attr = T_imag
    THEN Val(IF v.t = "float" THEN "float" ELSE "int", 0, 1)
    ELSE Raised("AttributeDoesNotExist")

\* a name: the default names True, False, None; a default function gives
\* the function object; anything else is not defined
EvalName(id) ==
    IF id = T_True THEN PyBool(TRUE)
    ELSE IF id = T_False THEN PyBool(FALSE)
    ELSE IF id = T_None THEN PyNone
    ELSE IF id \in DEFAULT_FUNCTIONS THEN Val("func", 0, 1)
    ELSE Raised("NameNotDefined")

RECURSIVE Eval(_, _)
Eval(node, rnd) ==
    CASE node.k = "num" -> node.v
      [] node.k = "name" -> EvalName(node.id)
      [] node.k = "bin" -> ApplyBinOp(node.op, Eval(node.l, rnd), Eval(node.r, rnd))
      [] node.k = "un" ->
            IF node.op = "-" THEN PyNeg(Eval(node.e, rnd))
            ELSE IF node.op = "+" THEN PyPos(Eval(node.e, rnd))
            ELSE PyNot(Eval(node.e, rnd))
      [] node.k = "cmp" ->
            IF node.op = "<" THEN PyLt(Eval(node.l, rnd), Eval(node.r, rnd))
            ELSE PyEq(Eval(node.l, rnd), Eval(node.r, rnd))
      [] node.k = "call" ->
            IF node.f.k = "name"
            THEN IF node.f.id \in DEFAULT_FUNCTIONS
                 THEN ApplyFunction(node.f.id,
                                    [j \in DOMAIN node.args |->
                                        Eval(node.args[j], rnd)], rnd)
                 ELSE Raised("FunctionNotDefined")
            ELSE IF node.f.k = "attr"
            THEN LET f == Eval(node.f, rnd)
                 IN  IF f.t = "beyond" \/ IsRaised(f) THEN f ELSE Raised("TypeError")
            ELSE Raised("FeatureNotAvailable")
      [] node.k = "attr" ->
            IF Head(node.attr) = "_" THEN Raised("FeatureNotAvailable")
            ELSE GetAttribute(Eval(node.e, rnd), node.attr)
      [] node.k = "assign" -> Eval(node.e, rnd)
      [] OTHER -> Raised("FeatureNotAvailable")

\* simple_eval(text): parse the stripped text, then evaluate
simple_eval(text, rnd) ==
    LET p == ParseStatement(Tokenize(strip(text)))
    IN  IF ~p.ok THEN Raised("SyntaxError")
        ELSE IF p.node = NoNode THEN Raised("InvalidExpression")
        ELSE Eval(p.node, rnd)

(***************************************************************************)
(* calculator(number1, number2, operation, expression).  An argument left  *)
(* out is None.  The outcome is a returned value or a raised ValueError    *)
(* with the parts of its message: the fixed wording, the text put into it  *)
(* and, for an expression, the exception simple_eval or float raised.      *)
(***************************************************************************)
MSG_EVAL == "Cannot evaluate expression: {expression}. Error: {e}"
MSG_MISSING == "Must provide either expression or (number1, number2, operation)"
MSG_DIV_ZERO == "Cannot divide by zero"
MSG_UNSUPPORTED == "Unsupported operation: {operation}"

\* the text argument left out (None): no character sequence equals it
NoText == <<"<None>">>
IsNoneText(x) == x = NoText

Return(v) == [kind |-> "return", val |-> v, msg |-> "", text |-> <<>>, cause |-> ""]
Raise(msg, text, cause) ==
    [kind |-> "raise", val |-> PyNone, msg |-> msg, text |-> text, cause |-> cause]
OutOfModel == [kind |-> "beyond", val |-> PyNone, msg |-> "", text |-> <<>>, cause |-> ""]

OPS_ADD == {<<"a", "d", "d">>, <<"+">>}
OPS_SUBTRACT == {<<"s", "u", "b", "t", "r", "a", "c", "t">>, <<"-">>}
OPS_MULTIPLY ==
    {<<"m", "u", "l", "t", "i", "p", "l", "y">>, <<"*">>, <<MUL_SIGN>>, <<"x">>}
OPS_DIVIDE == {<<"d", "i", "v", "i", "d", "e">>, <<"/">>, <<DIV_SIGN>>}

\* a result of arithmetic on the operands, returned as it is
Returned(v) == IF v.t = "beyond" THEN OutOfModel ELSE Return(v)

\* lines 113-120: the expression branch
EvaluateExpression(expression, rnd) ==
    LET replaced == replace(replace(expression, MUL_SIGN, "*"), DIV_SIGN, "/")
        result == float(simple_eval(strip(replaced), rnd))
    IN  IF result.t = "beyond" THEN OutOfModel
        ELSE IF IsRaised(result) THEN Raise(MSG_EVAL, replaced, result.t)
        ELSE Return(result)

\* lines 126-139: the operands branch
CalculateOperands(number1, number2, operation) ==
    LET op == strip(lower(operation))
    IN  IF op \in OPS_ADD THEN Returned(PyAdd(number1, number2))
        ELSE IF op \in OPS_SUBTRACT THEN Returned(PySub(number1, number2))
        ELSE IF op \in OPS_MULTIPLY THEN Returned(PyMul(number1, number2))
        ELSE IF op \in OPS_DIVIDE
        THEN IF number2.n = 0 THEN Raise(MSG_DIV_ZERO, <<>>, "")
             ELSE Returned(PyTrueDiv(number1, number2))
        ELSE Raise(MSG_UNSUPPORTED, op, "")

\* `if expression is not None:`
Truthy_NotNone(expression) == ~IsNoneText(expression)

\* `if expression:` is false for None and for the empty string
Truthy(expression) == ~IsNoneText(expression) /\ expression # <<>>

\* the operand triple looked at first, the expression only without it
calculator_OperandsFirst(number1, number2, operation, expression, rnd) ==
    IF ~(number1 = PyNone \/ number2 = PyNone \/ IsNoneText(operation))
    THEN CalculateOperands(number1, number2, operation)
    ELSE IF Truthy(expression) THEN EvaluateExpression(expression, rnd)
    ELSE Raise(MSG_MISSING, <<>>, "")

\* the missing-arguments error only when all three operands are left out
calculator_MissingIfAll(number1, number2, operation, expression, rnd) ==
    IF Truthy(expression) THEN EvaluateExpression(expression, rnd)
    ELSE IF number1 = PyNone /\ number2 = PyNone /\ IsNoneText(operation)
    THEN Raise(MSG_MISSING, <<>>, "")
    ELSE CalculateOperands(number1, number2, operation)

\* lines 113-139
calculator(number1, number2, operation, expression, rnd) ==
    IF Truthy(expression) THEN EvaluateExpression(expression, rnd)
    ELSE IF number1 = PyNone \/ number2 = PyNone \/ IsNoneText(operation)
    THEN Raise(MSG_MISSING, <<>>, "")
    ELSE CalculateOperands(number1, number2, operation)

(***************************************************************************)
(* Arithmetic expressions as trees, their conventional infix text, and     *)
(* their value in exact rational arithmetic.  A tree is a literal          *)
(* [k, text, n, d], a negation [k, e] or an operation [k, op, l, r].       *)
(***************************************************************************)
Lit(text, n, d) == [k |-> "lit", text |-> text, n |-> n, d |-> d]
Neg(e) == [k |-> "neg", e |-> e]
Op(op, l, r) == [k |-> "op", op |-> op, l |-> l, r |-> r]
NoTree == [k |-> "notree"]

Q(n, d) == [st |-> "ok", n |-> n, d |-> d]
QUndefined == [st |-> "undefined", n |-> 0, d |-> 1]
QBeyond == [st |-> "beyond", n |-> 0, d |-> 1]

QNorm(n, d) ==
    LET g == GCD(Abs(n), Abs(d))
        s == IF d < 0 THEN 0 - 1 ELSE 1
    IN  IF Abs(n \div g) > ModelMax \/ Abs(d \div g) > ModelMax THEN QBeyond
        ELSE Q(s * (n \div g), s * (d \div g))

QBig(a) == Abs(a.n) > ModelMax \/ a.d > ModelMax

RECURSIVE QPower(_, _)
QPower(a, e) ==
    IF e = 0 THEN Q(1, 1)
    ELSE IF e = 1 THEN a
    ELSE IF QBig(a) THEN QBeyond
    ELSE IF e > 15
    THEN IF a.d = 1 /\ Abs(a.n) <= 1
         THEN Q(IF e % 2 = 0 THEN a.n * a.n ELSE a.n, 1) ELSE QBeyond
    ELSE LET r == QPower(a, e - 1)
         IN  IF r.st # "ok" THEN r ELSE QNorm(r.n * a.n, r.d * a.d)

QApply(op, a, b) ==
    IF a.st = "undefined" \/ b.st = "undefined" THEN QUndefined
    ELSE IF a.st = "beyond" \/ b.st = "beyond" THEN QBeyond
    ELSE IF op = "**"
    THEN IF b.d # 1 THEN QUndefined
         ELSE IF b.n >= 0 THEN QPower(a, b.n)
         ELSE IF a.n = 0 THEN QUndefined
         ELSE QPower(QNorm(a.d, a.n), 0 - b.n)
    ELSE IF QBig(a) \/ QBig(b) THEN QBeyond
    ELSE IF op = "+" THEN QNorm(a.n * b.d + b.n * a.d, a.d * b.d)
    ELSE IF op = "-" THEN QNorm(a.n * b.d - b.n * a.d, a.d * b.d)
    ELSE IF op = "*" THEN QNorm(a.n * b.n, a.d * b.d)
    ELSE IF b.n = 0 THEN QUndefined
    ELSE QNorm(a.n * b.d, a.d * b.n)

\* the value of a tree: + - * / ** on rationals, integer exponents only;
\* undefined for a zero divisor, a negative power of zero and a fractional
\* exponent
RECURSIVE MathValue(_)
MathValue(t) ==
    IF t.k = "lit" THEN Q(t.n, t.d)
    ELSE IF t.k = "neg"
    THEN LET v == MathValue(t.e) IN IF v.st = "ok" THEN Q(0 - v.n, v.d) ELSE v
    ELSE QApply(t.op, MathValue(t.l), MathValue(t.r))

Prec(op) == IF op \in {"+", "-"} THEN 1 ELSE IF op \in {"*", "/"} THEN 2 ELSE 4
NodePrec(t) == IF t.k = "lit" THEN 9 ELSE IF t.k = "neg" THEN 3 ELSE Prec(t.op)

\* parentheses the usual notation needs around an operand
ParenLeft(op, l) ==
    IF op = "**" THEN NodePrec(l) <= 4 ELSE NodePrec(l) < Prec(op)
ParenRight(op, r) ==
    IF r.k = "neg" THEN TRUE
    ELSE IF op = "**" THEN NodePrec(r) < 4
    ELSE NodePrec(r) <= Prec(op)
ParenNeg(e) == NodePrec(e) <= 3

\* styles: 0 minimal parentheses, 1 spaces around binary operators,
\* 2 every compound operand parenthesised, 3 the glyphs for * and /,
\* above that glyphs and spaces
OpText(op, style) ==
    LET core == IF op = "**" THEN <<"*", "*">>
                ELSE IF op = "*" /\ style >= 3 THEN <<MUL_SIGN>>
                ELSE IF op = "/" /\ style >= 3 THEN <<DIV_SIGN>>
                ELSE <<op>>
    IN  IF style = 1 \/ style > 3 THEN <<" ">> \o core \o <<" ">> ELSE core

\* the text s of the operand t, in parentheses when needed
Wrapped(t, s, needed, style) ==
    IF needed \/ (style = 2 /\ t.k # "lit") THEN <<"(">> \o s \o <<")">> ELSE s

RECURSIVE Render(_, _)
Render(t, style) ==
    IF t.k = "lit" THEN t.text
    ELSE IF t.k = "neg"
    THEN <<"-">> \o Wrapped(t.e, Render(t.e, style), ParenNeg(t.e), style)
    ELSE Wrapped(t.l, Render(t.l, style), ParenLeft(t.op, t.l), style)
            \o OpText(t.op, style)
            \o Wrapped(t.r, Render(t.r, style), ParenRight(t.op, t.r), style)

(***************************************************************************)
(* The calls of calculator that are checked.                               *)
(***************************************************************************)
MaxStyle == 3
MaxCase == 2
MaxPad == 2

RECURSIVE NatText(_)
NatText(n) ==
    IF n < 10 THEN <<Digits[n + 1]>> ELSE NatText(n \div 10) \o <<Digits[(n % 10) + 1]>>

IntLit(n) == Lit(NatText(n), n, 1)

TreeLits == {IntLit(0), IntLit(2), IntLit(3), IntLit(10), Lit(<<"0", ".", "5">>, 1, 2)}
BinOps == {"+", "-", "*", "/", "**"}

Trees1 ==
    TreeLits \cup {Neg(l) : l \in TreeLits}
        \cup {Op(op, l, r) : op \in BinOps, l \in TreeLits, r \in TreeLits}

Trees2 ==
    {Op(op, l, r) : op \in BinOps, l \in Trees1, r \in TreeLits}
        \cup {Op(op, l, r) : op \in BinOps, l \in TreeLits, r \in Trees1}

\* the expressions the tests and the documentation name, and the edges of
\* the literal syntax and of the power operator
ExampleTrees ==
    {Op("-", IntLit(1), IntLit(9)),
     Op("*", Op("+", IntLit(2), IntLit(3)), Op("-", IntLit(4), IntLit(1))),
     Op("**", IntLit(2), IntLit(3)),
     Op("-", IntLit(10), Op("*", IntLit(2), IntLit(3))),
     Op("-", Op("+", Op("/", IntLit(2), IntLit(4)), Op("*", IntLit(3), IntLit(5))),
             Op("*", Op("/", IntLit(1), IntLit(2)), IntLit(7))),
     Op("*", IntLit(5), IntLit(3)),
     Op("/", IntLit(10), IntLit(2)),
     Op("/", IntLit(10), IntLit(0)),
     Op("/", IntLit(10), Op("-", IntLit(5), IntLit(5))),
     Neg(Op("**", IntLit(2), IntLit(2))),
     Op("**", Neg(IntLit(2)), IntLit(2)),
     Op("**", IntLit(MAX_POWER), IntLit(1)),
     Op("**", IntLit(MAX_POWER + 1), IntLit(1)),
     Op("**", IntLit(1), IntLit(MAX_POWER)),
     Op("**", IntLit(1), IntLit(MAX_POWER + 1)),
     Op("+", Lit(<<"0", "5">>, 5, 1), IntLit(3)),
     Op("+", Lit(<<"0", "0">>, 0, 1), IntLit(3)),
     Op("+", Lit(<<"0", "5", ".", "5">>, 11, 2), IntLit(3))}

ExprTrees == Trees1 \cup Trees2 \cup ExampleTrees

\* texts outside the arithmetic grammar, or not well formed
RawTexts ==
    {<<>>, <<" ", " ", " ">>, <<" ", "\t">>, <<"(", "1", "+", "2">>,
     <<"1", "+", "2", ")">>, <<"1", "+">>, <<"*", "2">>,
     <<"2", " ", "$", " ", "3">>, <<"1", " ", "2">>, <<"2", "x">>,
     <<"n", "o", "t", " ", "m", "a", "t", "h">>,
     <<"n", "o", "t", " ", "0">>, <<"x">>, <<"m", "a", "t", "h">>,
     <<"T", "r", "u", "e">>, <<"F", "a", "l", "s", "e">>,
     <<"N", "o", "n", "e">>, <<"i", "n", "t">>,
     <<"i", "n", "t", "(", "2", ")">>,
     <<"i", "n", "t", "(", "2", ".", "5", ")">>,
     <<"f", "l", "o", "a", "t", "(", "3", ")">>,
     <<"i", "n", "t", "(", ")">>,
     <<"i", "n", "t", "(", "1", ",", "2", ")">>,
     <<"f", "o", "o", "(", "1", ")">>, <<"x", "=", "1">>,
     <<"x", " ", "=", " ", "2", "+", "3">>, <<"x", "=">>,
     <<"7", "%", "3">>, <<"7", "/", "/", "2">>, <<"7", "%", "0">>,
     <<"1", "<", "2">>, <<"2", "<", "1">>, <<"1", "=", "=", "1">>,
     <<"(", "1", ")", ".", "r", "e", "a", "l">>,
     <<"(", "2", ".", "5", ")", ".", "i", "m", "a", "g">>,
     <<"(", "1", ")", ".", "f", "o", "o">>,
     <<"(", "1", ")", ".", "_", "_", "c", "l", "a", "s", "s", "_", "_">>,
     <<"(", "1", ")", ".", "r", "e", "a", "l", "(", ")">>,
     <<"r", "a", "n", "d", "(", ")">>,
     <<"r", "a", "n", "d", "i", "n", "t", "(", "3", ")">>,
     <<"r", "a", "n", "d", "(", "1", ")">>, <<"2", "(", "3", ")">>,
     <<"(", ")">>, <<"1", ",", "2">>,
     <<"(", "-", "8", ")", "*", "*", "0", ".", "5">>,
     <<"0", "*", "*", "-", "1">>, <<"0", "*", "*", "(", "-", "1", ")">>,
     <<"s", "t", "r", "(", "2", ")">>,
     <<"T", "r", "u", "e", "+", "T", "r", "u", "e">>,
     <<"i", "n", "t", "(", "7", "/", "2", ")", "*", "2">>,
     <<"N", "o", "n", "e", "+", "1">>, <<"1", "/", "0">>,
     <<"1", "/", "x">>, <<"1", "0", "/", "0", "+">>,
     <<"2", MUL_SIGN, MUL_SIGN, "3">>, <<"5", MUL_SIGN>>, <<"1", ".">>, <<".", "5">>,
     <<"1", ".", ".", "r", "e", "a", "l">>}

\* texts passed together with operands
BothTexts ==
    {<<>>, <<" ", " ", " ">>, <<"1", "-", "9">>, <<"1", "0", "/", "0">>,
     <<"x">>, <<"5", MUL_SIGN, "3">>, <<"r", "a", "n", "d", "(", ")">>}

\* operator names: those of the table, and others
OperationTokens ==
    {<<"a", "d", "d">>, <<"+">>,
     <<"s", "u", "b", "t", "r", "a", "c", "t">>, <<"-">>,
     <<"m", "u", "l", "t", "i", "p", "l", "y">>, <<"*">>, <<MUL_SIGN>>,
     <<"x">>, <<"d", "i", "v", "i", "d", "e">>, <<"/">>, <<DIV_SIGN>>,
     <<"p", "o", "w", "e", "r">>, <<"*", "*">>, <<"%">>,
     <<"p", "l", "u", "s">>, <<"a", "d", " ", "d">>, <<>>, <<"^">>,
     <<"a", "d", "d", "s">>}

BothOperations ==
    {<<"a", "d", "d">>, <<"/">>, <<" ", "D", "i", "v", "i", "d", "e">>,
     <<"p", "o", "w", "e", "r">>}

\* str.upper(), used to write the case variants of an operator name
upper(s) ==
    [i \in DOMAIN s |->
        IF s[i] \in Range(LowerLetters)
        THEN UpperLetters[IndexIn(LowerLetters, s[i])] ELSE s[i]]

\* case variants: 0 as written, 1 upper case, 2 capitalised, above that
\* the last letter in upper case
Cased(t, c) ==
    IF c = 0 \/ t = <<>> THEN t
    ELSE IF c = 1 THEN upper(t)
    ELSE IF c = 2 THEN upper(SubSeq(t, 1, 1)) \o Tail(t)
    ELSE SubSeq(t, 1, Len(t) - 1) \o upper(SubSeq(t, Len(t), Len(t)))

\* whitespace variants: 0 none, 1 a space on both sides, 2 a tab in front,
\* above that a newline behind
Padded(t, p) ==
    IF p = 0 THEN t
    ELSE IF p = 1 THEN <<" ">> \o t \o <<" ">>
    ELSE IF p = 2 THEN <<"\t">> \o t
    ELSE t \o <<"\n">>

VariantsOf(t) == {Padded(Cased(t, c), p) : c \in 0..MaxCase, p \in 0..MaxPad}

OperationTexts == UNION {VariantsOf(t) : t \in OperationTokens}

OperandVals == {PyInt(0), PyInt(3), PyInt(10), PyFloat(0, 1), PyFloat(5, 2)}

\* the values random.random() is taken to return
RandVals == {<<0, 1>>, <<1, 2>>}

CalcArgs(n1, n2, op, e) ==
    [number1 |-> n1, number2 |-> n2, operation |-> op, expression |-> e]

NoCalcArgs == CalcArgs(PyNone, PyNone, NoText, NoText)

CallOf(a, rnd) == calculator(a.number1, a.number2, a.operation, a.expression, rnd)

\* one call of calculator with the arguments a, the text of a.expression
\* written from the tree t (or from no tree)
Call(a, t) ==
    /\ cpc = "idle"
    /\ \E rnd \in RandVals :
        /\ CallOf(a, rnd).kind # "beyond"
        /\ cout' = CallOf(a, rnd)
    /\ cargs' = a
    /\ ctree' = t
    /\ cpc' = "done"
    /\ UNCHANGED <<dvars, botvars>>

\* calculator(expression=e), e an arithmetic expression in infix notation
CallExpression ==
    /\ cpc = "idle"
    /\ \E t \in ExprTrees, style \in 0..MaxStyle :
        Call(CalcArgs(PyNone, PyNone, NoText, Render(t, style)), t)

\* calculator(expression=e), e any other text
CallRawExpression ==
    /\ cpc = "idle"
    /\ \E e \in RawTexts : Call(CalcArgs(PyNone, PyNone, NoText, e), NoTree)

\* calculator(number1=..., number2=..., operation=...), any of them left out
CallOperands ==
    /\ cpc = "idle"
    /\ \E n1 \in OperandVals \cup {PyNone}, n2 \in OperandVals \cup {PyNone},
          op \in OperationTexts \cup {NoText} :
        Call(CalcArgs(n1, n2, op, NoText), NoTree)

\* calculator(number1=..., number2=..., operation=..., expression=...)
CallBoth ==
    /\ cpc = "idle"
    /\ \E n1 \in OperandVals \cup {PyNone}, n2 \in OperandVals \cup {PyNone},
          op \in BothOperations \cup {NoText}, e \in BothTexts :
        Call(CalcArgs(n1, n2, op, e), NoTree)

\* the caller has used the outcome and is ready for the next call
Forget ==
    /\ cpc = "done"
    /\ cpc' = "idle"
    /\ cargs' = NoCalcArgs
    /\ ctree' = NoTree
    /\ cout' = Return(PyNone)
    /\ UNCHANGED <<dvars, botvars>>

CalcInit ==
    /\ cpc = "idle"
    /\ cargs = NoCalcArgs
    /\ ctree = NoTree
    /\ cout = Return(PyNone)

CalcNext ==
    \/ CallExpression
    \/ CallRawExpression
    \/ CallOperands
    \/ CallBoth
    \/ Forget


(***************************************************************************)
(* agentbot.py: the environment, the history files and their refresh.      *)
(***************************************************************************)
\* os.getenv(...) of a variable that is not set (None)
EnvUnset == "<unset>"
TokenVals == {EnvUnset, "", "123:abc"}
TargetVals == {EnvUnset, "", "-1001"}

\* every chat id counts as set
EnvSet_Always(v) == TRUE

\* `if TARGET_CHAT_ID`, `if not TOKEN`: None and "" are false
EnvSet(v) == v # EnvUnset /\ v # ""

\* the exception classes the steps raise; all derive from Exception
TelegramErrors == {"NetworkError", "BadRequest"}
ExceptionClasses ==
    TelegramErrors \cup {"TimeoutExpired", "FileNotFoundError", "OSError",
                         "RuntimeError", "AgentRunError"}

\* `except (TelegramError, NetworkError)`
CatchesTelegramError(e) == e \in TelegramErrors

\* a handler that lets everything but Telegram errors through
CatchesException_TelegramOnly(e) == e \in TelegramErrors

\* `except Exception`
CatchesException(e) == e \in ExceptionClasses

\* a draw of history.csv: date, n1..n6, special_number (<<>> where missing)
Draw(date, nums, special) == [date |-> date, n |-> nums, special |-> special]

\* draws as fetch_data.py writes them, the newest first
AllDraws ==
    << Draw(<<2024, 1, 11>>, <<7, 8, 9, 10, 11, 49>>, <<5>>),
       Draw(<<2024, 1, 9>>, <<2, 7, 19, 25, 33, 40>>, <<1>>),
       Draw(<<2024, 1, 6>>, <<7, 12, 19, 25, 33, 49>>, <<3>>),
       Draw(<<2024, 1, 4>>, <<3, 7, 12, 25, 33, 49>>, <<>>),
       Draw(<<2024, 1, 2>>, <<1, 2, 3, 4, 5, 6>>, <<7>>) >>

MaxRows == 3

\* the k oldest draws, the newest of them first
Rows(k) == SubSeq(AllDraws, Len(AllDraws) - k + 1, Len(AllDraws))

Absent == [exists |-> FALSE, readable |-> FALSE, rows |-> <<>>]
Garbled == [exists |-> TRUE, readable |-> FALSE, rows |-> <<>>]
File(rows) == [exists |-> TRUE, readable |-> TRUE, rows |-> rows]
HistoryFiles == {Absent, Garbled} \cup {File(Rows(k)) : k \in 0..MaxRows}

\* what running fetch_data.py comes to
NoFetch == [kind |-> "none", rc |-> 0 - 1, exc |-> ""]
ScriptMissing == [kind |-> "missing", rc |-> 0 - 1, exc |-> ""]
Exited(rc) == [kind |-> "exited", rc |-> rc, exc |-> ""]
FetchRaised(e) == [kind |-> "raised", rc |-> 0 - 1, exc |-> e]
ReturnCodes == {0, 1, 2}
FetchResults ==
    {ScriptMissing} \cup {Exited(rc) : rc \in ReturnCodes}
        \cup {FetchRaised(e) : e \in {"TimeoutExpired", "FileNotFoundError"}}

\* shutil.copy(src, dst): done, refused, or broken off part-way
CopyResults == {"copied", "refused", "cut"}

\* every return code counts as success
FetchSucceeded_Always(returncode) == TRUE

\* `result.returncode == 0` (main), `not result.returncode != 0` (the job)
FetchSucceeded(returncode) == returncode = 0

\* the refresh of history.csv: the script is run when it exists; it leaves
\* the file newSrc unless it could not be started; on success the file is
\* copied over history.csv when it exists
Refreshed(hist, src, res, newSrc, copy) ==
    IF res.kind = "missing"
    THEN [history |-> hist, src |-> src, exc |-> ""]
    ELSE IF res.kind = "raised"
    THEN [history |-> hist,
          src |-> IF res.exc = "TimeoutExpired" THEN newSrc ELSE src,
          exc |-> res.exc]
    ELSE IF ~FetchSucceeded(res.rc) \/ ~newSrc.exists
    THEN [history |-> hist, src |-> newSrc, exc |-> ""]
    ELSE IF copy = "copied"
    THEN [history |-> newSrc, src |-> newSrc, exc |-> ""]
    ELSE [history |-> IF copy = "cut" THEN Garbled ELSE hist,
          src |-> newSrc, exc |-> "OSError"]

\* agentbot.py is imported: lines 19-26
Import ==
    /\ mpc = "import"
    /\ \E token \in TokenVals, chat \in TargetVals :
        /\ target' = chat
        /\ mpc' = IF EnvSet(token) THEN "main" ELSE "failed"
    /\ UNCHANGED <<dvars, cvars, mfetch, filevars, jvars, pvars, qvars>>

\* main(): the startup refresh, whose exceptions are caught and logged, then
\* the handlers and the daily job are registered and polling starts
Startup ==
    /\ mpc = "main"
    /\ \E res \in FetchResults, newSrc \in HistoryFiles, copy \in CopyResults :
        LET r == Refreshed(history, srcHistory, res, newSrc, copy)
        IN  /\ history' = r.history
            /\ srcHistory' = r.src
            /\ mfetch' = res
    /\ mpc' = "polling"
    /\ UNCHANGED <<dvars, cvars, target, jvars, pvars, qvars>>

(***************************************************************************)
(* agentbot.py: scheduled_marksix_update, one action for each stretch of   *)
(* code between two awaits.                                                *)
(***************************************************************************)
PHOTO == "chart photo"
CHART_FAILED == "Scheduled update failed: Chart generation error"
ERROR_NOTICE == "Scheduled update encountered an error. Check logs for details."

\* one call of context.bot.send_photo / send_message: exc is "" when it
\* returned
Sent(what, exc) == [what |-> what, chat |-> target, exc |-> exc]

SendPhotoResults == {"", "NetworkError", "BadRequest", "RuntimeError"}
SendMessageResults == {"", "NetworkError", "RuntimeError"}

\* the retry goes on whatever the attempt number
RetryAllowed_Always(attempt) == TRUE

\* line 141: `if attempt < 2` of `for attempt in range(3)`
RetryAllowed(attempt) == attempt < 2

\* lines 154-156: the exception e has reached the outer handler of the job
JobCaught(e) ==
    IF CatchesException(e)
    THEN /\ jpc' = IF EnvSet(target) THEN "notify" ELSE "done"
         /\ jraised' = jraised
    ELSE /\ jpc' = "done"
         /\ jraised' = TRUE

\* lines 91-113: the job is called; the refresh step runs up to the await
\* of agent.run
JobRefresh ==
    /\ mpc = "polling"
    /\ jpc = "idle"
    /\ \E res \in FetchResults, newSrc \in HistoryFiles, copy \in CopyResults :
        LET r == Refreshed(history, srcHistory, res, newSrc, copy)
        IN  /\ history' = r.history
            /\ srcHistory' = r.src
            /\ jfetch' = res
            /\ IF r.exc = ""
               THEN jpc' = "agent" /\ jraised' = jraised
               ELSE JobCaught(r.exc)
    /\ jattempt' = 0
    /\ jsent' = <<>>
    /\ UNCHANGED <<dvars, cvars, envvars, pvars, qvars>>

\* lines 117-125: agent.run returns or raises; then the chat id and the
\* chart file are looked at, up to the first send
JobAgent ==
    /\ jpc = "agent"
    /\ \E ok \in BOOLEAN, chart \in BOOLEAN :
        IF ~ok THEN JobCaught("AgentRunError")
        ELSE /\ jraised' = jraised
             /\ jpc' = IF ~EnvSet(target) THEN "done"
                       ELSE IF chart THEN "send" ELSE "chartmsg"
    /\ UNCHANGED <<dvars, cvars, envvars, filevars, jfetch, jattempt, jsent, pvars, qvars>>

\* lines 132-146: open(chart_path) fails, or send_photo returns or raises
JobSendPhoto ==
    /\ jpc = "send"
    /\ \/ /\ JobCaught("FileNotFoundError")
          /\ jsent' = jsent
       \/ \E exc \in SendPhotoResults :
            /\ jsent' = Append(jsent, Sent(PHOTO, exc))
            /\ IF exc = "" THEN jpc' = "done" /\ jraised' = jraised
               ELSE IF CatchesTelegramError(exc) /\ RetryAllowed(jattempt)
               THEN jpc' = "sleep" /\ jraised' = jraised
               ELSE JobCaught(exc)
    /\ UNCHANGED <<dvars, cvars, envvars, filevars, jfetch, jattempt, pvars, qvars>>

\* line 143 and the next turn of the loop: asyncio.sleep(5) is over
JobSleep ==
    /\ jpc = "sleep"
    /\ jattempt' = jattempt + 1
    /\ jpc' = "send"
    /\ UNCHANGED <<dvars, cvars, envvars, filevars, jfetch, jsent, jraised, pvars, qvars>>

\* lines 148-152: the chart file is not there
JobChartMessage ==
    /\ jpc = "chartmsg"
    /\ \E exc \in SendMessageResults :
        /\ jsent' = Append(jsent, Sent(CHART_FAILED, exc))
        /\ IF exc = "" THEN jpc' = "done" /\ jraised' = jraised
           ELSE JobCaught(exc)
    /\ UNCHANGED <<dvars, cvars, envvars, filevars, jfetch, jattempt, pvars, qvars>>

\* lines 157-163: the error notification, whose own failure is logged only
JobNotify ==
    /\ jpc = "notify"
    /\ \E exc \in SendMessageResults :
        /\ jsent' = Append(jsent, Sent(ERROR_NOTICE, exc))
        /\ jraised' = (jraised \/ (exc # "" /\ ~CatchesException(exc)))
    /\ jpc' = "done"
    /\ UNCHANGED <<dvars, cvars, envvars, filevars, jfetch, jattempt, pvars, qvars>>

\* the callback has returned to the job queue
JobReturn ==
    /\ jpc = "done"
    /\ jpc' = "idle"
    /\ jfetch' = NoFetch
    /\ jattempt' = 0
    /\ jsent' = <<>>
    /\ jraised' = FALSE
    /\ UNCHANGED <<dvars, cvars, envvars, filevars, pvars, qvars>>

JobInit ==
    /\ mpc = "import"
    /\ target = EnvUnset
    /\ mfetch = NoFetch
    /\ history = Absent
    /\ srcHistory = Absent
    /\ jpc = "idle"
    /\ jfetch = NoFetch
    /\ jattempt = 0
    /\ jsent = <<>>
    /\ jraised = FALSE

JobNext ==
    \/ Import
    \/ Startup
    \/ JobRefresh
    \/ JobAgent
    \/ JobSendPhoto
    \/ JobSleep
    \/ JobChartMessage
    \/ JobNotify
    \/ JobReturn

(***************************************************************************)
(* agentbot.py: handle_photo, one action for each stretch of code between  *)
(* two awaits.                                                             *)
(***************************************************************************)
FileIds == {"AgACAgQAAx0", "AgACAgUAAx1"}
NoPath == <<>>
APOLOGY == "Sorry, I couldn't process the image. Please try again with a clearer image."
AGENT_OUTPUT == "result.output"

\* line 198: temp_dir / f"{photo.file_id}.jpg"
TempPath(id) == <<"temp_images", id, ".jpg">>

\* one call of update.message.reply_text: exc is "" when it returned
Reply(text, exc) == [text |-> text, exc |-> exc]
ReplyResults == {"", "NetworkError"}

\* the file is left where it is
Unlinked_Never(files, temp) == files

\* lines 215-218: `if temp_path and temp_path.exists(): temp_path.unlink()`
Unlinked(files, temp) ==
    IF temp # NoPath /\ temp \in files THEN files \ {temp} ELSE files

\* line 210: the step named has raised; the apology is next
PhotoCaught(step) ==
    /\ pfail' = step
    /\ ppc' = "apology"

\* lines 187-189: the handler is called with a photo message
PhotoReceive ==
    /\ mpc = "polling"
    /\ ppc = "idle"
    /\ \E id \in FileIds : pphoto' = id
    /\ ptemp' = NoPath
    /\ ppc' = "typing"
    /\ UNCHANGED <<dvars, cvars, envvars, filevars, jvars, tempFiles, pfail, preplies,
                   praised, qvars>>

\* lines 189-193: send_action returns or raises
PhotoTyping ==
    /\ ppc = "typing"
    /\ \E ok \in BOOLEAN :
        IF ok THEN ppc' = "get_file" /\ pfail' = pfail
        ELSE PhotoCaught("send_action")
    /\ UNCHANGED <<dvars, cvars, envvars, filevars, jvars, pphoto, ptemp, tempFiles,
                   preplies, praised, qvars>>

\* lines 193-199: get_file returns or raises; the directory is made (or
\* cannot be) and temp_path is set
PhotoGetFile ==
    /\ ppc = "get_file"
    /\ \E ok \in BOOLEAN, made \in BOOLEAN :
        IF ~ok THEN PhotoCaught("get_file") /\ ptemp' = ptemp
        ELSE IF ~made THEN PhotoCaught("mkdir") /\ ptemp' = ptemp
        ELSE /\ ptemp' = TempPath(pphoto)
             /\ ppc' = "download"
             /\ pfail' = pfail
    /\ UNCHANGED <<dvars, cvars, envvars, filevars, jvars, pphoto, tempFiles, preplies,
                   praised, qvars>>

\* lines 199-204: download_to_drive returns, or raises with or without a
\* file left behind
PhotoDownload ==
    /\ ppc = "download"
    /\ \E ok \in BOOLEAN, written \in BOOLEAN :
        IF ok
        THEN /\ tempFiles' = tempFiles \cup {ptemp}
             /\ ppc' = "agent"
             /\ pfail' = pfail
        ELSE /\ tempFiles' = IF written THEN tempFiles \cup {ptemp} ELSE tempFiles
             /\ PhotoCaught("download")
    /\ UNCHANGED <<dvars, cvars, envvars, filevars, jvars, pphoto, ptemp, preplies,
                   praised, qvars>>

\* lines 204-208: agent.run returns or raises
PhotoAgent ==
    /\ ppc = "agent"
    /\ \E ok \in BOOLEAN :
        IF ok THEN ppc' = "reply" /\ pfail' = pfail
        ELSE PhotoCaught("agent")
    /\ UNCHANGED <<dvars, cvars, envvars, filevars, jvars, pphoto, ptemp, tempFiles,
                   preplies, praised, qvars>>

\* lines 208 and 215-219: the reply returns, and the handler ends through
\* the finally block, or the reply raises
PhotoReply ==
    /\ ppc = "reply"
    /\ \E exc \in ReplyResults :
        /\ preplies' = Append(preplies, Reply(AGENT_OUTPUT, exc))
        /\ IF exc = ""
           THEN /\ tempFiles' = Unlinked(tempFiles, ptemp)
                /\ ppc' = "done"
                /\ pfail' = pfail
           ELSE /\ tempFiles' = tempFiles
                /\ PhotoCaught("reply")
    /\ UNCHANGED <<dvars, cvars, envvars, filevars, jvars, pphoto, ptemp, praised, qvars>>

\* lines 211-219: the apology returns or raises; either way the finally
\* block runs, and an exception of the apology leaves the handler
PhotoApology ==
    /\ ppc = "apology"
    /\ \E exc \in ReplyResults :
        /\ preplies' = Append(preplies, Reply(APOLOGY, exc))
        /\ praised' = (exc # "")
    /\ tempFiles' = Unlinked(tempFiles, ptemp)
    /\ ppc' = "done"
    /\ UNCHANGED <<dvars, cvars, envvars, filevars, jvars, pphoto, ptemp, pfail, qvars>>

\* the handler has returned to the application
PhotoReturn ==
    /\ ppc = "done"
    /\ ppc' = "idle"
    /\ pphoto' = ""
    /\ ptemp' = NoPath
    /\ pfail' = ""
    /\ preplies' = <<>>
    /\ praised' = FALSE
    /\ UNCHANGED <<dvars, cvars, envvars, filevars, jvars, tempFiles, qvars>>

PhotoInit ==
    /\ ppc = "idle"
    /\ pphoto = ""
    /\ ptemp = NoPath
    /\ tempFiles = {}
    /\ pfail = ""
    /\ preplies = <<>>
    /\ praised = FALSE

PhotoNext ==
    \/ Import
    \/ Startup
    \/ PhotoReceive
    \/ PhotoTyping
    \/ PhotoGetFile
    \/ PhotoDownload
    \/ PhotoAgent
    \/ PhotoReply
    \/ PhotoApology
    \/ PhotoReturn

(***************************************************************************)
(* agent_setup.py: query_mark_six_history.                                 *)
(***************************************************************************)
MSG_NO_FILE == "Historical data not available. Please update the database first."
MSG_READ_ERROR == "Error reading historical data: {e}"
MSG_NO_DATA == "No historical data available."
MSG_NEED_NUMBER == "Please specify a number (1-49) to check its frequency."
MSG_NUMBER_RANGE == "Number must be between 1 and 49."
DEFAULT_LIMIT == 10
FREQ_MIN == 1
FREQ_MAX == 49
TOP_COUNT == 10

T_latest == <<"l", "a", "t", "e", "s", "t">>
T_frequency == <<"f", "r", "e", "q", "u", "e", "n", "c", "y">>
T_stats == <<"s", "t", "a", "t", "s">>

Min(a, b) == IF a < b THEN a ELSE b
Max(a, b) == IF a > b THEN a ELSE b

\* strftime("%Y-%m-%d")
Pad2(n) == IF n < 10 THEN <<"0">> \o NatText(n) ELSE NatText(n)
DateText(d) == NatText(d[1]) \o <<"-">> \o Pad2(d[2]) \o <<"-">> \o Pad2(d[3])

\* lines 227-228: the frame read from the file, the dates rewritten
ReadFrame(file) ==
    [i \in 1..Len(file.rows) |->
        [date |-> DateText(file.rows[i].date),
         n |-> file.rows[i].n,
         special |-> file.rows[i].special]]

\* df.head(n): the first n rows, or all but the last -n rows when n < 0
head(df, n) ==
    IF n >= 0 THEN SubSeq(df, 1, Min(n, Len(df)))
    ELSE SubSeq(df, 1, Max(Len(df) + n, 0))

\* ', '.join of the six numbers
RECURSIVE JoinNumbers(_)
JoinNumbers(ns) ==
    IF Len(ns) = 0 THEN <<>>
    ELSE IF Len(ns) = 1 THEN NatText(ns[1])
    ELSE NatText(ns[1]) \o <<",", " ">> \o JoinNumbers(Tail(ns))

\* lines 240-242: one line of the "latest" answer
LatestLine(row) ==
    [date |-> row.date,
     nums |-> JoinNumbers(row.n),
     extra |-> IF row.special = <<>> THEN <<"N", "/", "A">>
               ELSE NatText(row.special[1])]

\* lines 238-243
Latest(df, limit) ==
    [kind |-> "latest",
     count |-> Min(limit, Len(df)),
     lines |-> [i \in 1..Len(head(df, limit)) |-> LatestLine(head(df, limit)[i])]]

\* a / b rounded to the nearest integer, halves to the even one
RoundHalfEven(a, b) ==
    LET q == a \div b
        r == a % b
    IN  IF 2 * r > b THEN q + 1
        ELSE IF 2 * r = b THEN q + (q % 2)
        ELSE q

\* lines 252-268: count is summed over the six columns
Frequency(df, number) ==
    LET count == Cardinality({<<i, c>> \in (1..Len(df)) \X (1..6) : df[i].n[c] = number})
        extra == Cardinality({i \in 1..Len(df) : df[i].special = <<number>>})
    IN  [kind |-> "frequency",
         number |-> number,
         count |-> count,
         total |-> Len(df),
         tenths |-> RoundHalfEven(count * 1000, Len(df)),
         extra |-> extra]

\* lines 271-273: the columns n1..n6 one after the other
RECURSIVE AllNums(_, _)
AllNums(df, col) ==
    IF col > 6 THEN <<>>
    ELSE [i \in 1..Len(df) |-> df[i].n[col]] \o AllNums(df, col + 1)

\* Counter(all_nums): the numbers in the order they are first met
RECURSIVE FirstMet(_)
FirstMet(ns) ==
    IF ns = <<>> THEN <<>>
    ELSE LET front == FirstMet(SubSeq(ns, 1, Len(ns) - 1))
             last == ns[Len(ns)]
         IN  IF last \in Range(front) THEN front ELSE Append(front, last)

\* one pair of most_common put in its place: after every pair that counts
\* as much or more
RECURSIVE PlaceByCount(_, _)
PlaceByCount(pairs, p) ==
    IF pairs = <<>> THEN <<p>>
    ELSE IF pairs[1][2] >= p[2] THEN <<pairs[1]>> \o PlaceByCount(Tail(pairs), p)
    ELSE <<p>> \o pairs

\* Counter.most_common(): by count, the highest first, equal counts in the
\* order first met
RECURSIVE MostCommonOf(_, _)
MostCommonOf(keys, ns) ==
    IF keys = <<>> THEN <<>>
    ELSE PlaceByCount(MostCommonOf(SubSeq(keys, 1, Len(keys) - 1), ns),
                      <<keys[Len(keys)], CountOf(ns, keys[Len(keys)])>>)

MostCommon(ns) == MostCommonOf(FirstMet(ns), ns)

\* lines 271-288
Stats(df) ==
    LET common == MostCommon(AllNums(df, 1))
        bottom == SubSeq(common, Max(Len(common) - TOP_COUNT, 0) + 1, Len(common))
    IN  [kind |-> "stats",
         total |-> Len(df),
         from |-> df[Len(df)].date,
         to |-> df[1].date,
         top |-> SubSeq(common, 1, Min(TOP_COUNT, Len(common))),
         bottom |-> Reverse(bottom)]

QueryText(msg) == [kind |-> "text", msg |-> msg]
NoNumber == <<>>

\* lines 221-291
query_mark_six_history(file, query_type, number, limit) ==
    IF ~file.exists THEN QueryText(MSG_NO_FILE)
    ELSE IF ~file.readable THEN QueryText(MSG_READ_ERROR)
    ELSE IF Len(file.rows) = 0 THEN QueryText(MSG_NO_DATA)
    ELSE LET df == ReadFrame(file)
             qt == strip(lower(query_type))
         IN  IF qt = T_latest THEN Latest(df, limit)
             ELSE IF qt = T_frequency
             THEN IF number = NoNumber THEN QueryText(MSG_NEED_NUMBER)
                  ELSE IF ~(FREQ_MIN <= number[1] /\ number[1] <= FREQ_MAX)
                  THEN QueryText(MSG_NUMBER_RANGE)
                  ELSE Frequency(df, number[1])
             ELSE IF qt = T_stats THEN Stats(df)
             ELSE [kind |-> "unknown", query_type |-> qt]

MaxLimit == 4
Limits == ((0 - MaxLimit)..MaxLimit) \cup {DEFAULT_LIMIT}
NumberArgs == {NoNumber, <<0>>, <<1>>, <<7>>, <<49>>, <<50>>}
QueryTypeTexts ==
    {T_latest, <<" ", "L", "a", "t", "e", "s", "t", " ">>,
     <<"L", "A", "T", "E", "S", "T">>,
     T_frequency, <<"F", "r", "e", "q", "u", "e", "n", "c", "y", "\n">>,
     T_stats, <<"\t", "S", "T", "A", "T", "S">>,
     <<"t", "r", "e", "n", "d">>, <<>>}

QueryArgs(qt, number, limit) == [query_type |-> qt, number |-> number, limit |-> limit]
NoQueryArgs == QueryArgs(<<>>, NoNumber, DEFAULT_LIMIT)

\* the tool is called on the file as it is
Query ==
    /\ qpc = "idle"
    /\ \E qt \in QueryTypeTexts, number \in NumberArgs, limit \in Limits :
        /\ (limit = DEFAULT_LIMIT \/ strip(lower(qt)) = T_latest)
        /\ (number = NoNumber \/ strip(lower(qt)) = T_frequency)
        /\ qargs' = QueryArgs(qt, number, limit)
        /\ qout' = query_mark_six_history(history, qt, number, limit)
    /\ qpc' = "done"
    /\ UNCHANGED <<dvars, cvars, envvars, filevars, jvars, pvars>>

\* the agent has the answer and may call the tool again
QueryForget ==
    /\ qpc = "done"
    /\ qpc' = "idle"
    /\ qargs' = NoQueryArgs
    /\ qout' = QueryText("")
    /\ UNCHANGED <<dvars, cvars, envvars, filevars, jvars, pvars>>

QueryInit ==
    /\ qpc = "idle"
    /\ qargs = NoQueryArgs
    /\ qout = QueryText("")

QueryNext ==
    \/ Import
    \/ Startup
    \/ Query
    \/ QueryForget

BotInit == JobInit /\ PhotoInit /\ QueryInit

Init == DrawInit /\ CalcInit /\ BotInit

DrawNext ==
    \/ Construct
    \/ AssignDrawNumber
    \/ AssignNumbers
    \/ AssignBonus
    \/ Discard

DrawSpec == Init /\ [][DrawNext]_vars

CalcSpec == Init /\ [][CalcNext]_vars

JobSpec == Init /\ [][JobNext]_vars

PhotoSpec == Init /\ [][PhotoNext]_vars

QuerySpec == Init /\ [][QueryNext]_vars

Next == DrawNext \/ CalcNext \/ JobNext \/ PhotoNext \/ QueryNext

Spec == Init /\ [][Next]_vars

(***************************************************************************)
(* The six rules of a draw result, stated on the arguments of a call.      *)
(***************************************************************************)
Rule1(a) == a.draw_number > 0
Rule2(a) == Len(a.numbers) = 6
Rule3(a) == \A i \in DOMAIN a.numbers : a.numbers[i] \in 1..49
Rule4(a) == \A i, j \in DOMAIN a.numbers : i # j => a.numbers[i] # a.numbers[j]
Rule5(a) == a.bonus_number \in 1..49
Rule6(a) == \A i \in DOMAIN a.numbers : a.numbers[i] # a.bonus_number
RuleHolds(n, a) ==
    CASE n = 1 -> Rule1(a) [] n = 2 -> Rule2(a) [] n = 3 -> Rule3(a)
      [] n = 4 -> Rule4(a) [] n = 5 -> Rule5(a) [] OTHER -> Rule6(a)
AllSixRules(a) == \A n \in 1..6 : RuleHolds(n, a)
ViolatedRules(a) == {n \in 1..6 : ~RuleHolds(n, a)}
Lowest(S) == CHOOSE n \in S : \A m \in S : n <= m
Called == dpc \in {"held", "failed"}
Fresh == dpc = "held" /\ nAssign = 0

\* C1: a MarkSixResult(...) call succeeds if and only if the six rules hold
\* of its arguments (draw_number > 0; exactly 6 numbers; each in 1..49;
\* pairwise distinct; bonus in 1..49; bonus not among the numbers).
C1_ConstructIffSixRules ==
    Called => ((dpc = "held") <=> AllSixRules(dargs))

\* a successful call whose numbers hold both boundary values 1 and 49
C1_Witness ==
    /\ dpc = "held"
    /\ 1 \in Range(dargs.numbers)
    /\ 49 \in Range(dargs.numbers)

\* C2: after a successful construction the stored numbers are strictly
\* ascending and hold exactly the values of the input list, whatever its
\* order, and validating the stored list again returns the same list.
C2_StoredNumbersCanonical ==
    Fresh =>
        \A r \in instances :
            /\ IsAscending(r.numbers)
            /\ SameBag(r.numbers, dargs.numbers)
            /\ NumbersField(r.numbers).ok
            /\ NumbersField(r.numbers).value = r.numbers

\* a successful construction from a list that was not in ascending order
C2_Witness ==
    /\ Fresh
    /\ ~IsAscending(dargs.numbers)
    /\ \E r \in instances : r.numbers # dargs.numbers

\* the rules a ValidationError reports, in report order
ReportedRules == [i \in DOMAIN derrors |-> derrors[i].rule]

\* C3 as stated: a failed construction reports exactly one error, that of
\* the lowest-numbered violated rule.
C3_OnlyFirstFailingRule ==
    dpc = "failed" => ReportedRules = <<Lowest(ViolatedRules(dargs))>>

\* the lowest violated rule of each field, in field order: rule 1 of
\* draw_number, rules 2 to 4 of numbers, rule 5 of bonus_number
FieldGroups == <<{1}, {2, 3, 4}, {5}>>
RECURSIVE LowestPerGroup(_, _)
LowestPerGroup(groups, violated) ==
    IF groups = <<>> THEN <<>>
    ELSE (IF Head(groups) \cap violated = {} THEN <<>>
          ELSE <<Lowest(Head(groups) \cap violated)>>)
            \o LowestPerGroup(Tail(groups), violated)

\* C3 amended: a failed construction reports one error per failing field,
\* in the order draw_number, numbers, bonus_number, the error of a field
\* being that of its lowest-numbered violated rule; rule 6 is reported only
\* when rules 1 to 5 all hold, and then alone.  The first error reported is
\* that of the lowest-numbered violated rule.
C3_OneErrorPerFailingField ==
    dpc = "failed" =>
        /\ ReportedRules =
              (IF ViolatedRules(dargs) \subseteq {6} THEN <<6>>
               ELSE LowestPerGroup(FieldGroups, ViolatedRules(dargs)))
        /\ ReportedRules[1] = Lowest(ViolatedRules(dargs))

\* a failed construction that violates rules of all three fields, and
\* rule 6 as well
C3_Witness ==
    /\ dpc = "failed"
    /\ {1, 3, 4, 5} \subseteq ViolatedRules(dargs)
    /\ Len(derrors) = 3

\* an instance read as the arguments it stands for
AsArgs(r) ==
    [draw_number |-> r.draw_number, draw_date |-> r.draw_date,
     numbers |-> r.numbers, bonus_number |-> r.bonus_number]

\* C4: every existing MarkSixResult instance satisfies the six rules and
\* has its numbers in ascending order, whatever constructions and permitted
\* attribute assignments came before, and a failed validation leaves no
\* instance.
C4_InstancesAlwaysValid ==
    /\ dpc = "failed" => instances = {}
    /\ \A r \in instances : AllSixRules(AsArgs(r)) /\ IsAscending(r.numbers)


(***************************************************************************)
(* Statements about calculator.                                            *)
(***************************************************************************)
CalcDone == cpc = "done"
ExpressionGiven == cargs.expression # NoText
OperandsGiven ==
    cargs.number1 # PyNone /\ cargs.number2 # PyNone /\ cargs.operation # NoText
\* operands mode: no expression argument, and the three operands present
OperandsMode == CalcDone /\ ~ExpressionGiven /\ OperandsGiven

\* the synonym table of the operator names
TableTokens(op) ==
    CASE op = "+" -> {<<"a", "d", "d">>, <<"+">>}
      [] op = "-" -> {<<"s", "u", "b", "t", "r", "a", "c", "t">>, <<"-">>}
      [] op = "*" -> {<<"m", "u", "l", "t", "i", "p", "l", "y">>, <<"*">>,
                      <<MUL_SIGN>>, <<"x">>}
      [] OTHER -> {<<"d", "i", "v", "i", "d", "e">>, <<"/">>, <<DIV_SIGN>>}
TableOps == {"+", "-", "*", "/"}
\* the operation argument is a case and whitespace variant of a name of op
NamesOp(op) == \E t \in TableTokens(op) : cargs.operation \in VariantsOf(t)
Recognised == \E op \in TableOps : NamesOp(op)

QOf(v) == Q(v.n, v.d)
\* the returned number equals the rational q
ReturnsValue(q) ==
    /\ cout.kind = "return"
    /\ q.st = "ok"
    /\ cout.val.n = q.n
    /\ cout.val.d = q.d

\* a tree has a division whose divisor is zero, written or computed
RECURSIVE HasZeroDivisor(_)
HasZeroDivisor(t) ==
    IF t.k = "lit" \/ t.k = "notree" THEN FALSE
    ELSE IF t.k = "neg" THEN HasZeroDivisor(t.e)
    ELSE \/ (t.op = "/" /\ MathValue(t.r).st = "ok" /\ MathValue(t.r).n = 0)
         \/ HasZeroDivisor(t.l)
         \/ HasZeroDivisor(t.r)

\* C5: a division by zero fails with the error "Cannot divide by zero" on
\* both paths: in operands mode when the operator names Divide and number2
\* is 0, and in expression mode when a divisor is a literal 0 or computes
\* to 0.
C5_OneDivideByZeroError ==
    (\/ (OperandsMode /\ NamesOp("/") /\ cargs.number2.n = 0)
     \/ (CalcDone /\ ExpressionGiven /\ HasZeroDivisor(ctree)))
        => (cout.kind = "raise" /\ cout.msg = MSG_DIV_ZERO)

\* the text holds a letter (an identifier, a call, an attribute), an
\* assignment or an operator outside + - * / ** ( )
OutsideGrammar(text) ==
    \/ \E i \in DOMAIN text : IsLetter(text[i]) \/ text[i] \in {"=", "%", "<", ",", "$"}
    \/ \E i \in 1..(Len(text) - 1) : text[i] = "/" /\ text[i + 1] = "/"

\* C6: an expression text that holds an identifier, an assignment, a call,
\* an attribute access or an operator outside the grammar is rejected with
\* an error and never gives a number.
C6_RejectsOutsideGrammar ==
    (CalcDone /\ ExpressionGiven /\ cargs.expression # <<>>
        /\ OutsideGrammar(cargs.expression))
        => cout.kind = "raise"

\* the expression argument was written from a tree whose value is defined
ValidExpression ==
    CalcDone /\ ExpressionGiven /\ ctree # NoTree /\ MathValue(ctree).st = "ok"

\* the examples of the tests and of the documentation, with their values
C7_Examples ==
    {<<<<"1", "-", "9">>, 0 - 8>>,
     <<<<"(", "2", "+", "3", ")", "*", "(", "4", "-", "1", ")">>, 15>>,
     <<<<"2", "*", "*", "3">>, 8>>,
     <<<<"1", "0", "-", "2", "*", "3">>, 4>>,
     <<<<"2", "/", "4", "+", "3", "*", "5", "-", "1", "/", "2", "*", "7">>, 12>>,
     <<<<"5", MUL_SIGN, "3">>, 15>>,
     <<<<"1", "0", DIV_SIGN, "2">>, 5>>}

LeadingZeroLiteral(t) ==
    /\ Len(t.text) > 1
    /\ t.text[1] = "0"
    /\ "." \notin Range(t.text)
    /\ t.n # 0

RECURSIVE HasLeadingZeroLiteral(_)
HasLeadingZeroLiteral(t) ==
    IF t.k = "lit" THEN LeadingZeroLiteral(t)
    ELSE IF t.k = "neg" THEN HasLeadingZeroLiteral(t.e)
    ELSE HasLeadingZeroLiteral(t.l) \/ HasLeadingZeroLiteral(t.r)

QAbsAbove(q, m) ==
    /\ q.st = "ok"
    /\ \/ Abs(q.n) \div q.d > m
       \/ (Abs(q.n) \div q.d = m /\ Abs(q.n) % q.d > 0)

\* a ** whose base or exponent is above 4000000 in absolute value
RECURSIVE HasHighPower(_)
HasHighPower(t) ==
    IF t.k = "lit" THEN FALSE
    ELSE IF t.k = "neg" THEN HasHighPower(t.e)
    ELSE \/ (t.op = "**" /\ (QAbsAbove(MathValue(t.l), 4000000)
                               \/ QAbsAbove(MathValue(t.r), 4000000)))
         \/ HasHighPower(t.l)
         \/ HasHighPower(t.r)

C8_OperatorTable ==
    OperandsMode =>
        \A op \in TableOps :
            (NamesOp(op) /\ (op = "/" => cargs.number2.n # 0))
                => ReturnsValue(QApply(op, QOf(cargs.number1), QOf(cargs.number2)))

\* " ADD " has added 3 and 10
C8_Witness ==
    /\ OperandsMode
    /\ cargs.operation = <<" ", "A", "D", "D", " ">>
    /\ cargs.number1 = PyInt(3)
    /\ cargs.number2 = PyInt(10)
    /\ ReturnsValue(Q(13, 1))

\* C9 as stated: an operator name outside the table fails with an error
\* that names the string exactly as the caller supplied it.
C9_NamesLiteralOperation ==
    (OperandsMode /\ ~Recognised)
        => cout = Raise(MSG_UNSUPPORTED, cargs.operation, "")

UnknownTokens ==
    {<<"p", "o", "w", "e", "r">>, <<"*", "*">>, <<"%">>, <<"p", "l", "u", "s">>,
     <<"a", "d", " ", "d">>, <<>>, <<"^">>, <<"a", "d", "d", "s">>}

\* C9 amended: an operator name outside the table fails with the error
\* "Unsupported operation: ..." naming the string in lower case and without
\* its surrounding whitespace; no number is returned.
C9_NamesNormalisedOperation ==
    /\ (OperandsMode /\ ~Recognised) => (cout.kind = "raise" /\ cout.msg = MSG_UNSUPPORTED)
    /\ \A t \in UnknownTokens :
            (OperandsMode /\ cargs.operation \in VariantsOf(t))
                => cout = Raise(MSG_UNSUPPORTED, t, "")

\* " POWER " has been refused as "power"
C9_Witness ==
    /\ OperandsMode
    /\ cargs.operation = <<" ", "P", "O", "W", "E", "R", " ">>
    /\ cout = Raise(MSG_UNSUPPORTED, <<"p", "o", "w", "e", "r">>, "")

\* texts that are not well formed: empty, blank, unbalanced, cut short,
\* or with a character that is no token
MalformedTexts ==
    {<<>>, <<" ", " ", " ">>, <<" ", "\t">>, <<"(", "1", "+", "2">>,
     <<"1", "+", "2", ")">>, <<"1", "+">>, <<"*", "2">>,
     <<"2", " ", "$", " ", "3">>, <<"1", " ", "2">>,
     <<"1", "0", "/", "0", "+">>, <<"5", MUL_SIGN>>}

\* C10 as stated: a malformed expression, the empty one included, fails
\* with "Cannot evaluate expression: ..." carrying the text, and is never
\* a missing-arguments error nor an operands-mode result.
C10_MalformedIsEvaluationError ==
    (CalcDone /\ cargs.expression \in MalformedTexts)
        => (cout.kind = "raise" /\ cout.msg = MSG_EVAL
                /\ cout.text = cargs.expression)

\* a text with the glyphs written as * and /
GlyphsAsOperators(text) ==
    [i \in DOMAIN text |->
        IF text[i] = MUL_SIGN THEN "*" ELSE IF text[i] = DIV_SIGN THEN "/" ELSE text[i]]

\* C10 amended: a non-empty malformed expression (a blank one included)
\* fails with "Cannot evaluate expression: ..." carrying the text, with the
\* glyphs written as * and /, and the parser's error; it is never a
\* missing-arguments error nor an operands-mode result.  The empty string
\* counts as no expression: the call is an operands-mode call, and fails
\* with the missing-arguments error when an operand is absent.
C10_NonEmptyMalformedIsEvaluationError ==
    /\ (CalcDone /\ cargs.expression \in MalformedTexts \ {<<>>})
            => /\ cout.kind = "raise"
               /\ cout.msg = MSG_EVAL
               /\ cout.text = GlyphsAsOperators(cargs.expression)
               /\ cout.cause \in {"SyntaxError", "InvalidExpression"}
    /\ (CalcDone /\ cargs.expression = <<>>)
            => /\ cout.msg # MSG_EVAL
               /\ ~OperandsGiven => cout = Raise(MSG_MISSING, <<>>, "")
               /\ (OperandsGiven /\ NamesOp("+"))
                    => ReturnsValue(QApply("+", QOf(cargs.number1), QOf(cargs.number2)))

\* a blank expression has been refused by the evaluator although operands
\* came with it
C10_Witness ==
    /\ CalcDone
    /\ cargs.expression = <<" ", " ", " ">>
    /\ OperandsGiven
    /\ cout.msg = MSG_EVAL

\* C11: with no expression supplied and number1, number2 or operation
\* absent (all three absent included), the call fails with the
\* missing-arguments error and returns no value.
C11_MissingArguments ==
    (CalcDone /\ ~ExpressionGiven /\ ~OperandsGiven)
        => cout = Raise(MSG_MISSING, <<>>, "")

\* a call with number1 only has been refused
C11_Witness ==
    /\ CalcDone
    /\ ~ExpressionGiven
    /\ cargs.number1 = PyInt(3)
    /\ cargs.number2 = PyNone
    /\ cargs.operation = NoText
    /\ cout = Raise(MSG_MISSING, <<>>, "")

\* a call with an expression argument and at least one operand argument
BothGiven ==
    /\ CalcDone
    /\ ExpressionGiven
    /\ (cargs.number1 # PyNone \/ cargs.number2 # PyNone \/ cargs.operation # NoText)

\* the outcome is one of those of the call with the expression alone
AsExpressionAlone ==
    \E rnd \in RandVals :
        cout = calculator(PyNone, PyNone, NoText, cargs.expression, rnd)

\* C12 as stated: with both an expression and operands supplied, the
\* outcome is that of the call with the expression alone, whatever the
\* operands are.
C12_ExpressionAlwaysPrevails == BothGiven => AsExpressionAlone

\* C12 amended: with both a non-empty expression and operands supplied, the
\* outcome is that of the call with the expression alone, whatever the
\* operands are: "1-9" gives -8 and "10/0" the evaluation error, also with
\* an unknown operator or with a divide operator and number2 = 0.
C12_NonEmptyExpressionPrevails ==
    /\ (BothGiven /\ cargs.expression # <<>>) => AsExpressionAlone
    /\ (BothGiven /\ cargs.expression = <<"1", "-", "9">>)
            => ReturnsValue(Q(0 - 8, 1))
    /\ (BothGiven /\ cargs.expression = <<"1", "0", "/", "0">>)
            => (cout.kind = "raise" /\ cout.msg = MSG_EVAL)

\* "1-9" has given -8 although it came with 10 / 0
C12_Witness ==
    /\ BothGiven
    /\ cargs.expression = <<"1", "-", "9">>
    /\ cargs.number1 = PyInt(10)
    /\ cargs.number2 = PyInt(0)
    /\ cargs.operation = <<"/">>
    /\ ReturnsValue(Q(0 - 8, 1))

\* C13: every call that returns gives a value of type float, in both
\* modes, also when the operands and the result are integral.
C13_AlwaysReturnsFloat ==
    (CalcDone /\ cout.kind = "return") => cout.val.t = "float"

\* C14: a call's outcome is fixed by its arguments: whatever else the call
\* could have drawn on, the same arguments give the same value or error.
C14_OutcomeFixedByArguments ==
    CalcDone =>
        \A rnd \in RandVals :
            LET other == CallOf(cargs, rnd)
            IN  other.kind = "beyond" \/ other = cout

(***************************************************************************)
(* Statements about scheduled_marksix_update, main and handle_photo.       *)
(***************************************************************************)
PhotoAt == {i \in DOMAIN jsent : jsent[i].what = PHOTO}
NoticeAt == {i \in DOMAIN jsent : jsent[i].what = ERROR_NOTICE}
TelegramFailure(m) == m.exc \in {"NetworkError", "BadRequest"}
TargetUnset == target \in {EnvUnset, ""}

\* C15: in one run the chart photo is sent at most 3 times, and only with
\* the target chat set: nothing is sent after a photo that went through; a
\* further attempt follows only a Telegram or network failure, and is
\* waited for only while fewer than 3 attempts were made; after the third
\* failure no photo follows and the error notification is attempted.
C15_PhotoRetries ==
    /\ Cardinality(PhotoAt) <= 3
    /\ PhotoAt # {} => ~TargetUnset
    /\ \A i \in PhotoAt : jsent[i].exc = "" => i = Len(jsent)
    /\ \A i \in PhotoAt, j \in PhotoAt : i < j => TelegramFailure(jsent[i])
    /\ jpc = "sleep"
            => /\ Cardinality(PhotoAt) < 3
               /\ jsent[Len(jsent)].what = PHOTO
               /\ TelegramFailure(jsent[Len(jsent)])
    /\ (jpc = "done" /\ Cardinality(PhotoAt) = 3 /\ jsent[3].exc # "")
            => /\ Len(jsent) = 4
               /\ jsent[4].what = ERROR_NOTICE

\* three photo attempts have failed and the notification has been tried
C15_Witness ==
    /\ jpc = "done"
    /\ Len(jsent) = 4
    /\ PhotoAt = {1, 2, 3}
    /\ \A i \in PhotoAt : TelegramFailure(jsent[i])
    /\ jsent[4].what = ERROR_NOTICE

\* C16: no exception leaves the job, whichever step fails, and at most one
\* error notification is attempted in a run.
C16_JobNeverRaises ==
    /\ ~jraised
    /\ Cardinality(NoticeAt) <= 1

\* the error notification itself has failed and the job has ended
C16_Witness ==
    /\ jpc = "done"
    /\ ~jraised
    /\ NoticeAt = {Len(jsent)}
    /\ jsent[Len(jsent)].exc = "RuntimeError"

\* C17: with TARGET_CHAT_ID not set a run sends nothing, on the normal
\* path and on every exception path.
C17_NothingSentWithoutTarget == TargetUnset => jsent = <<>>

\* a run without a target chat has ended after the fetch raised
C17_Witness ==
    /\ TargetUnset
    /\ jpc = "done"
    /\ jfetch.kind = "raised"
    /\ jsent = <<>>

\* the refresh that has just run exited with return code 0
FetchedWell(f) == f.kind = "exited" /\ f.rc = 0

\* C18: history.csv changes only in a refresh, of main or of the job,
\* whose fetch subprocess exited with return code 0 and left the source
\* history.csv in place.
C18_HistoryOnlyAfterFetch ==
    [][history' # history =>
            /\ srcHistory'.exists
            /\ \/ (mpc = "main" /\ FetchedWell(mfetch'))
               \/ (mpc = "polling" /\ jpc = "idle" /\ FetchedWell(jfetch'))]_vars

\* the job has put a history.csv where the startup refresh had left none
C18_Witness ==
    /\ mfetch = ScriptMissing
    /\ FetchedWell(jfetch)
    /\ history.exists
    /\ history = srcHistory

\* C19: once handle_photo has finished, the file it downloaded is gone,
\* however the handler ended; and when get_file, the download or the agent
\* run failed, the only reply attempted is the apology.
C19_TempFileRemoved ==
    ppc = "done" =>
        /\ <<"temp_images", pphoto, ".jpg">> \notin tempFiles
        /\ pfail \in {"send_action", "get_file", "mkdir", "download", "agent"}
                => (Len(preplies) = 1 /\ preplies[1].text = APOLOGY)

\* the agent run failed on a downloaded file, the apology failed too, and
\* the file is gone
C19_Witness ==
    /\ ppc = "done"
    /\ pfail = "agent"
    /\ ptemp = <<"temp_images", pphoto, ".jpg">>
    /\ praised
    /\ ptemp \notin tempFiles

\* C20: for "latest" on a history with rows, the count of the header is
\* the number of lines listed, and the lines are the first rows of the
\* file, for every limit.
C20_HeaderCountsLines ==
    (/\ qpc = "done"
     /\ qargs.query_type \in {T_latest, <<" ", "L", "a", "t", "e", "s", "t", " ">>,
                               <<"L", "A", "T", "E", "S", "T">>}
     /\ history.exists /\ history.readable /\ Len(history.rows) > 0)
        => /\ qout.kind = "latest"
           /\ qout.count = Len(qout.lines)
           /\ \A i \in DOMAIN qout.lines :
                qout.lines[i].date = DateText(history.rows[i].date)

========================================================================
